---- MODULE Spec2Model ----
(***************************************************************************)
(* PII detection-and-redaction engine of open_webui/middleware_pii.py:     *)
(* the pattern catalog, PIIFilter.detect_pii, sanitize_query,              *)
(* validate_query, check_patient_context and create_filter_report.         *)
(*                                                                         *)
(* A text is a sequence of characters, each character a one-character      *)
(* string.  A regular expression is its syntax tree, interpreted by a      *)
(* backtracking matcher with the priorities of Python's re engine          *)
(* (leftmost match, first alternative first, greedy repetition).           *)
(***************************************************************************)
EXTENDS Integers, Sequences, FiniteSets, TLC

(***************************************************************************)
(* Characters and the character classes the patterns use.                  *)
(***************************************************************************)
Digits == {"0", "1", "2", "3", "4", "5", "6", "7", "8", "9"}

UpperLetters ==
    {"A", "B", "C", "D", "E", "F", "G", "H", "I", "J", "K", "L", "M",
     "N", "O", "P", "Q", "R", "S", "T", "U", "V", "W", "X", "Y", "Z"}

LowerLetters ==
    {"a", "b", "c", "d", "e", "f", "g", "h", "i", "j", "k", "l", "m",
     "n", "o", "p", "q", "r", "s", "t", "u", "v", "w", "x", "y", "z"}

\* Non-ASCII letters that occur in the patterns and keyword lists.
AccentedLower == {"á", "â", "ã", "ç", "é", "ê", "ó", "ú"}
AccentedUpper == {"Á", "Â", "Ã", "Ç", "É", "Ê", "Ó", "Ú"}

\* str.lower() on one character.
ToLower ==
    "A" :> "a" @@ "B" :> "b" @@ "C" :> "c" @@ "D" :> "d" @@ "E" :> "e" @@
    "F" :> "f" @@ "G" :> "g" @@ "H" :> "h" @@ "I" :> "i" @@ "J" :> "j" @@
    "K" :> "k" @@ "L" :> "l" @@ "M" :> "m" @@ "N" :> "n" @@ "O" :> "o" @@
    "P" :> "p" @@ "Q" :> "q" @@ "R" :> "r" @@ "S" :> "s" @@ "T" :> "t" @@
    "U" :> "u" @@ "V" :> "v" @@ "W" :> "w" @@ "X" :> "x" @@ "Y" :> "y" @@
    "Z" :> "z" @@ "Á" :> "á" @@ "Â" :> "â" @@ "Ã" :> "ã" @@ "Ç" :> "ç" @@
    "É" :> "é" @@ "Ê" :> "ê" @@ "Ó" :> "ó" @@ "Ú" :> "ú"

\* str.upper() on one character.
ToUpper ==
    "a" :> "A" @@ "b" :> "B" @@ "c" :> "C" @@ "d" :> "D" @@ "e" :> "E" @@
    "f" :> "F" @@ "g" :> "G" @@ "h" :> "H" @@ "i" :> "I" @@ "j" :> "J" @@
    "k" :> "K" @@ "l" :> "L" @@ "m" :> "M" @@ "n" :> "N" @@ "o" :> "O" @@
    "p" :> "P" @@ "q" :> "Q" @@ "r" :> "R" @@ "s" :> "S" @@ "t" :> "T" @@
    "u" :> "U" @@ "v" :> "V" @@ "w" :> "W" @@ "x" :> "X" @@ "y" :> "Y" @@
    "z" :> "Z" @@ "á" :> "Á" @@ "â" :> "Â" @@ "ã" :> "Ã" @@ "ç" :> "Ç" @@
    "é" :> "É" @@ "ê" :> "Ê" @@ "ó" :> "Ó" @@ "ú" :> "Ú"

CasedUpper == UpperLetters \cup AccentedUpper

CasedLower == LowerLetters \cup AccentedLower

LowerChar(c) == IF c \in CasedUpper THEN ToLower[c] ELSE c

UpperChar(c) == IF c \in CasedLower THEN ToUpper[c] ELSE c

\* str.lower() and str.upper().
StrLower(s) == [i \in 1..Len(s) |-> LowerChar(s[i])]

StrUpper(s) == [i \in 1..Len(s) |-> UpperChar(s[i])]

\* The other case of a cased character (re.IGNORECASE compares both cases).
SwapCase(c) ==
    IF c \in CasedUpper THEN ToLower[c]
    ELSE IF c \in CasedLower THEN ToUpper[c] ELSE c

\* \s of a str pattern.
Whitespace == {" ", "\t", "\n", "\r", "\f"}

\* \w of a str pattern: letters, digits and the underscore.
WordChars ==
    UpperLetters \cup LowerLetters \cup AccentedLower \cup AccentedUpper
        \cup Digits \cup {"_"}

(***************************************************************************)
(* Regular-expression syntax trees.                                        *)
(***************************************************************************)
Unbounded == 0 - 1

ReSet(S) == [t |-> "set", set |-> S]

ReCh(c) == ReSet({c})

ReCat(parts) == [t |-> "cat", parts |-> parts]

ReAlt(parts) == [t |-> "alt", parts |-> parts]

\* Greedy repetition body{min,max}; max = Unbounded for * and +.
ReRep(body, min, max) == [t |-> "rep", body |-> body, min |-> min, max |-> max]

ReOpt(body) == ReRep(body, 0, 1)

\* Capturing group ( ... ).
ReGrp(body) == [t |-> "grp", body |-> body]

\* \b
ReWB == [t |-> "wb"]

\* A literal string.
ReLit(str) == [t |-> "lit", str |-> str]

ReD == ReSet(Digits)

ReDn(n) == ReRep(ReD, n, n)

ReS == ReSet(Whitespace)

(***************************************************************************)
(* PIICategory: the members of the enumeration, in declaration order, and  *)
(* the value of each.                                                      *)
(***************************************************************************)
PIICategoryMembers ==
    <<"CPF", "EMAIL", "PHONE", "CREDIT_CARD", "SSN", "PASSPORT",
      "MEDICAL_RECORD", "PATIENT_NAME", "ADDRESS", "DATE_OF_BIRTH",
      "INSURANCE_ID", "BANK_ACCOUNT", "IP_ADDRESS">>

PIICategory == {PIICategoryMembers[i] : i \in 1..Len(PIICategoryMembers)}

CategoryValue ==
    [c \in PIICategory |->
        CASE c = "CPF" -> <<"c", "p", "f">>
          [] c = "EMAIL" -> <<"e", "m", "a", "i", "l">>
          [] c = "PHONE" -> <<"p", "h", "o", "n", "e">>
          [] c = "CREDIT_CARD" -> <<"c", "r", "e", "d", "i", "t", "_", "c", "a", "r", "d">>
          [] c = "SSN" -> <<"s", "s", "n">>
          [] c = "PASSPORT" -> <<"p", "a", "s", "s", "p", "o", "r", "t">>
          [] c = "MEDICAL_RECORD" ->
                <<"m", "e", "d", "i", "c", "a", "l", "_", "r", "e", "c", "o", "r", "d">>
          [] c = "PATIENT_NAME" ->
                <<"p", "a", "t", "i", "e", "n", "t", "_", "n", "a", "m", "e">>
          [] c = "ADDRESS" -> <<"a", "d", "d", "r", "e", "s", "s">>
          [] c = "DATE_OF_BIRTH" ->
                <<"d", "a", "t", "e", "_", "o", "f", "_", "b", "i", "r", "t", "h">>
          [] c = "INSURANCE_ID" ->
                <<"i", "n", "s", "u", "r", "a", "n", "c", "e", "_", "i", "d">>
          [] c = "BANK_ACCOUNT" ->
                <<"b", "a", "n", "k", "_", "a", "c", "c", "o", "u", "n", "t">>
          [] c = "IP_ADDRESS" ->
                <<"i", "p", "_", "a", "d", "d", "r", "e", "s", "s">>]

(***************************************************************************)
(* PIIFilter.PATTERNS: a dict, modelled as its keys in insertion order     *)
(* and the pattern of each key.                                            *)
(***************************************************************************)
\* r'\d{3}\.\d{3}\.\d{3}-\d{2}|\d{11}'
PatternCPF ==
    ReAlt(<<ReCat(<<ReDn(3), ReCh("."), ReDn(3), ReCh("."), ReDn(3),
                    ReCh("-"), ReDn(2)>>),
            ReDn(11)>>)

\* r'[a-zA-Z0-9._%+-]+@[a-zA-Z0-9.-]+\.[a-zA-Z]{2,}'
PatternEMAIL ==
    ReCat(<<ReRep(ReSet(LowerLetters \cup UpperLetters \cup Digits
                            \cup {".", "_", "%", "+", "-"}), 1, Unbounded),
            ReCh("@"),
            ReRep(ReSet(LowerLetters \cup UpperLetters \cup Digits
                            \cup {".", "-"}), 1, Unbounded),
            ReCh("."),
            ReRep(ReSet(LowerLetters \cup UpperLetters), 2, Unbounded)>>)

\* r'\(?(\d{2})\)?\s?9?\d{4}-?\d{4}|\+55\s?\d{2}\s?\d{4,5}-?\d{4}'
PatternPHONE ==
    ReAlt(<<ReCat(<<ReOpt(ReCh("(")), ReGrp(ReDn(2)), ReOpt(ReCh(")")),
                    ReOpt(ReS), ReOpt(ReCh("9")), ReDn(4), ReOpt(ReCh("-")),
                    ReDn(4)>>),
            ReCat(<<ReLit(<<"+", "5", "5">>), ReOpt(ReS), ReDn(2),
                    ReOpt(ReS), ReRep(ReD, 4, 5), ReOpt(ReCh("-")),
                    ReDn(4)>>)>>)

\* r'\b\d{4}[\s-]?\d{4}[\s-]?\d{4}[\s-]?\d{4}\b'
PatternCREDIT_CARD ==
    ReCat(<<ReWB, ReDn(4), ReOpt(ReSet(Whitespace \cup {"-"})),
            ReDn(4), ReOpt(ReSet(Whitespace \cup {"-"})),
            ReDn(4), ReOpt(ReSet(Whitespace \cup {"-"})),
            ReDn(4), ReWB>>)

\* r'\d{3}-\d{2}-\d{4}'
PatternSSN == ReCat(<<ReDn(3), ReCh("-"), ReDn(2), ReCh("-"), ReDn(4)>>)

\* r'[A-Z]{2}\d{6,9}'
PatternPASSPORT == ReCat(<<ReRep(ReSet(UpperLetters), 2, 2), ReRep(ReD, 6, 9)>>)

\* r'(MRN|record number|prontuário)[\s:]*\d+'
PatternMEDICAL_RECORD ==
    ReCat(<<ReGrp(ReAlt(<<ReLit(<<"M", "R", "N">>),
                          ReLit(<<"r", "e", "c", "o", "r", "d", " ", "n", "u", "m", "b", "e", "r">>),
                          ReLit(<<"p", "r", "o", "n", "t", "u", "á", "r", "i", "o">>)>>)),
            ReRep(ReSet(Whitespace \cup {":"}), 0, Unbounded),
            ReRep(ReD, 1, Unbounded)>>)

\* r'\d+\s+[\w\s]+(?:street|avenue|road|st|ave|rd|rua|avenida)'
PatternADDRESS ==
    ReCat(<<ReRep(ReD, 1, Unbounded), ReRep(ReS, 1, Unbounded),
            ReRep(ReSet(WordChars \cup Whitespace), 1, Unbounded),
            ReAlt(<<ReLit(<<"s", "t", "r", "e", "e", "t">>),
                    ReLit(<<"a", "v", "e", "n", "u", "e">>),
                    ReLit(<<"r", "o", "a", "d">>),
                    ReLit(<<"s", "t">>),
                    ReLit(<<"a", "v", "e">>),
                    ReLit(<<"r", "d">>),
                    ReLit(<<"r", "u", "a">>),
                    ReLit(<<"a", "v", "e", "n", "i", "d", "a">>)>>)>>)

\* r'\d{2}[/-]\d{2}[/-]\d{4}|\d{4}[/-]\d{2}[/-]\d{2}'
PatternDATE_OF_BIRTH ==
    ReAlt(<<ReCat(<<ReDn(2), ReSet({"/", "-"}), ReDn(2), ReSet({"/", "-"}),
                    ReDn(4)>>),
            ReCat(<<ReDn(4), ReSet({"/", "-"}), ReDn(2), ReSet({"/", "-"}),
                    ReDn(2)>>)>>)

\* r'(insurance|apólice)[\s:]*[A-Z0-9]{6,}'
PatternINSURANCE_ID ==
    ReCat(<<ReGrp(ReAlt(<<ReLit(<<"i", "n", "s", "u", "r", "a", "n", "c", "e">>),
                          ReLit(<<"a", "p", "ó", "l", "i", "c", "e">>)>>)),
            ReRep(ReSet(Whitespace \cup {":"}), 0, Unbounded),
            ReRep(ReSet(UpperLetters \cup Digits), 6, Unbounded)>>)

\* r'(account|conta)[\s:]*\d{8,17}'
PatternBANK_ACCOUNT ==
    ReCat(<<ReGrp(ReAlt(<<ReLit(<<"a", "c", "c", "o", "u", "n", "t">>),
                          ReLit(<<"c", "o", "n", "t", "a">>)>>)),
            ReRep(ReSet(Whitespace \cup {":"}), 0, Unbounded),
            ReRep(ReD, 8, 17)>>)

\* r'\b(?:\d{1,3}\.){3}\d{1,3}\b'
PatternIP_ADDRESS ==
    ReCat(<<ReWB, ReRep(ReCat(<<ReRep(ReD, 1, 3), ReCh(".")>>), 3, 3),
            ReRep(ReD, 1, 3), ReWB>>)

PATTERNS ==
    [keys |-> <<"CPF", "EMAIL", "PHONE", "CREDIT_CARD", "SSN", "PASSPORT",
                "MEDICAL_RECORD", "ADDRESS", "DATE_OF_BIRTH", "INSURANCE_ID",
                "BANK_ACCOUNT", "IP_ADDRESS">>,
     at |-> [c \in PIICategory \ {"PATIENT_NAME"} |->
                CASE c = "CPF" -> PatternCPF
                  [] c = "EMAIL" -> PatternEMAIL
                  [] c = "PHONE" -> PatternPHONE
                  [] c = "CREDIT_CARD" -> PatternCREDIT_CARD
                  [] c = "SSN" -> PatternSSN
                  [] c = "PASSPORT" -> PatternPASSPORT
                  [] c = "MEDICAL_RECORD" -> PatternMEDICAL_RECORD
                  [] c = "ADDRESS" -> PatternADDRESS
                  [] c = "DATE_OF_BIRTH" -> PatternDATE_OF_BIRTH
                  [] c = "INSURANCE_ID" -> PatternINSURANCE_ID
                  [] c = "BANK_ACCOUNT" -> PatternBANK_ACCOUNT
                  [] c = "IP_ADDRESS" -> PatternIP_ADDRESS]]

(***************************************************************************)
(* re.compile(pattern, re.IGNORECASE) and the methods of a compiled        *)
(* pattern that the filter calls: findall and sub.                         *)
(***************************************************************************)
RECURSIVE CountGroups(_)
RECURSIVE CountGroupsIn(_, _)
\* The capturing groups of parts[i], parts[i+1], ...
CountGroupsIn(parts, i) ==
    IF i > Len(parts) THEN 0
    ELSE CountGroups(parts[i]) + CountGroupsIn(parts, i + 1)

\* Pattern.groups: the number of capturing groups of the pattern.
CountGroups(r) ==
    CASE r.t \in {"cat", "alt"} -> CountGroupsIn(r.parts, 1)
      [] r.t = "rep" -> CountGroups(r.body)
      [] r.t = "grp" -> 1 + CountGroups(r.body)
      [] OTHER -> 0

ReCompile(pattern, ignorecase) ==
    [re |-> pattern, groups |-> CountGroups(pattern), ignorecase |-> ignorecase]

\* Whether character c is matched by the class node r.
InClass(c, r, ignorecase) ==
    \/ c \in r.set
    \/ ignorecase /\ SwapCase(c) \in r.set

\* Whether position i of s (between s[i-1] and s[i]) is a word boundary.
AtWordBoundary(s, i) ==
    LET before == i > 1 /\ s[i - 1] \in WordChars
        after == i <= Len(s) /\ s[i] \in WordChars
    IN  before # after

\* Whether the literal str stands at position i of s.
LiteralAt(s, i, str, ignorecase) ==
    /\ i + Len(str) - 1 <= Len(s)
    /\ \A j \in 1..Len(str) :
          \/ s[i + j - 1] = str[j]
          \/ ignorecase /\ SwapCase(s[i + j - 1]) = str[j]

RECURSIVE RunLength(_, _, _, _, _)
\* How many characters from position i on are in class cls, at most max.
RunLength(s, i, cls, max, ignorecase) ==
    IF max = 0 \/ i > Len(s) THEN 0
    ELSE IF ~InClass(s[i], cls, ignorecase) THEN 0
    ELSE 1 + RunLength(s, i + 1, cls,
                       IF max = Unbounded THEN Unbounded ELSE max - 1,
                       ignorecase)

NoMatch == [ok |-> FALSE]

\* The first of two attempts that succeeds; the second is made only when
\* the first fails.
OrElse(first, second) == IF first.ok THEN first ELSE second

RECURSIVE MatchHere(_, _, _, _, _)
RECURSIVE GiveBack(_, _, _, _, _, _, _)
\* A greedy repetition of one character class that took n characters from
\* position i: the rest of the pattern is tried after n characters, then
\* after n - 1, down to min.
GiveBack(rest, s, i, n, min, g, ic) ==
    OrElse(MatchHere(rest, s, i + n, g, ic),
           IF n > min THEN GiveBack(rest, s, i, n - 1, min, g, ic)
           ELSE NoMatch)

\* A greedy repetition of one character class from position i, n being
\* the number of characters of the class that stand there.
RepeatClass(r, rest, s, i, n, g, ic) ==
    IF n < r.min THEN NoMatch ELSE GiveBack(rest, s, i, n, r.min, g, ic)

\* The backtracking matcher: k is the stack of nodes still to match from
\* position i of s, g the text of group 1 so far.  The result is the first
\* successful path in the engine's order of trial: the alternatives of |
\* from left to right, a greedy repetition with one more iteration before
\* it stops.
MatchHere(k, s, i, g, ic) ==
    IF Len(k) = 0 THEN [ok |-> TRUE, end |-> i, g |-> g]
    ELSE
      LET r == k[1]
          rest == Tail(k)
      IN  CASE r.t = "set" ->
                 IF i <= Len(s) /\ InClass(s[i], r, ic)
                 THEN MatchHere(rest, s, i + 1, g, ic)
                 ELSE NoMatch
            [] r.t = "lit" ->
                 IF LiteralAt(s, i, r.str, ic)
                 THEN MatchHere(rest, s, i + Len(r.str), g, ic)
                 ELSE NoMatch
            [] r.t = "cat" -> MatchHere(r.parts \o rest, s, i, g, ic)
            [] r.t = "alt" ->
                 IF Len(r.parts) = 0 THEN NoMatch
                 ELSE OrElse(MatchHere(<<r.parts[1]>> \o rest, s, i, g, ic),
                             MatchHere(<<ReAlt(Tail(r.parts))>> \o rest,
                                       s, i, g, ic))
            [] r.t = "rep" /\ r.body.t = "set" ->
                 RepeatClass(r, rest, s, i,
                             RunLength(s, i, r.body, r.max, ic), g, ic)
            [] r.t = "rep" /\ r.body.t # "set" ->
                 OrElse(IF r.max = 0 THEN NoMatch
                        ELSE MatchHere(
                               <<r.body,
                                 ReRep(r.body,
                                       IF r.min > 0 THEN r.min - 1 ELSE 0,
                                       IF r.max = Unbounded THEN Unbounded
                                       ELSE r.max - 1)>> \o rest,
                               s, i, g, ic),
                        IF r.min = 0 THEN MatchHere(rest, s, i, g, ic)
                        ELSE NoMatch)
            [] r.t = "grp" ->
                 MatchHere(<<r.body, [t |-> "endgrp", from |-> i]>> \o rest,
                           s, i, g, ic)
            [] r.t = "endgrp" ->
                 MatchHere(rest, s, i, SubSeq(s, r.from, i - 1), ic)
            [] r.t = "wb" ->
                 IF AtWordBoundary(s, i) THEN MatchHere(rest, s, i, g, ic)
                 ELSE NoMatch

\* A match found by starting at position start.
StartingAt(start, m) ==
    IF m.ok THEN [ok |-> TRUE, start |-> start, end |-> m.end, g |-> m.g]
    ELSE NoMatch

RECURSIVE SearchFrom(_, _, _)
\* Pattern.search(s, pos): the leftmost match starting at pos or later, as
\* [ok, start, end, g] (end is one past the last matched character).
SearchFrom(p, s, pos) ==
    IF pos > Len(s) + 1 THEN NoMatch
    ELSE OrElse(StartingAt(pos, MatchHere(<<p.re>>, s, pos, <<>>, p.ignorecase)),
                SearchFrom(p, s, pos + 1))

\* Where the scan resumes after a match: past it, and one further after an
\* empty match.
ResumeAfter(m) == IF m.end = m.start THEN m.end + 1 ELSE m.end

\* The item findall lists for match m: the matched text when the pattern
\* has no capturing group, and the text of group 1 (empty when the group
\* took no part in the match) when it has one.
FindAllItem(p, s, m) ==
    IF p.groups = 0 THEN SubSeq(s, m.start, m.end - 1) ELSE m.g

RECURSIVE FindAllFrom(_, _, _)
\* The items of match m and of the matches after it.
FindAllAfter(p, s, m) ==
    IF ~m.ok THEN <<>>
    ELSE <<FindAllItem(p, s, m)>> \o FindAllFrom(p, s, ResumeAfter(m))

FindAllFrom(p, s, pos) == FindAllAfter(p, s, SearchFrom(p, s, pos))

\* Pattern.findall(s): one item per non-overlapping match, from left to
\* right.
FindAll(p, s) == FindAllFrom(p, s, 1)

RECURSIVE SubFrom(_, _, _, _)
\* SubAfter that forgets the text after the last match.
SubAfterDropsTail(p, repl, s, pos, m) ==
    IF ~m.ok THEN <<>>
    ELSE SubSeq(s, pos, m.start - 1) \o repl
             \o SubFrom(p, repl, s, ResumeAfter(m))

\* s from position pos on, with match m and the matches after it replaced.
SubAfter(p, repl, s, pos, m) ==
    IF ~m.ok THEN SubSeq(s, pos, Len(s))
    ELSE SubSeq(s, pos, m.start - 1) \o repl
             \o (IF m.end = m.start /\ m.end <= Len(s)
                 THEN <<s[m.end]>> ELSE <<>>)
             \o SubFrom(p, repl, s, ResumeAfter(m))

SubFrom(p, repl, s, pos) == SubAfter(p, repl, s, pos, SearchFrom(p, s, pos))

\* Pattern.sub(repl, s): s with every non-overlapping match replaced by
\* repl (repl holds no backslash escape here).
Sub(p, repl, s) == SubFrom(p, repl, s, 1)

(***************************************************************************)
(* Python values.  A str is its sequence of characters; the other kinds    *)
(* of value a caller can pass are kept apart by their type tag.            *)
(***************************************************************************)
PyStr(s) == [ty |-> "str", s |-> s]

PyBool(b) == [ty |-> "bool", b |-> b]

PyInt(n) == [ty |-> "int", n |-> n]

PyNone == [ty |-> "NoneType"]

\* bool(v): the truth value the conditions of the code test.
Truthy(v) ==
    CASE v.ty = "str" -> Len(v.s) > 0
      [] v.ty = "bool" -> v.b
      [] v.ty = "int" -> v.n # 0
      [] v.ty = "list" -> Len(v.items) > 0
      [] v.ty = "dict" -> Len(v.d.keys) > 0
      [] OTHER -> FALSE

\* How a call ends: it returns a value or raises an exception.
Return(v) == [raised |-> FALSE, value |-> v]

Raise(exc) == [raised |-> TRUE, exc |-> exc]

\* An insertion-ordered dict: its keys in order and the value of each.
EmptyDict == [keys |-> <<>>, at |-> <<>>]

DictHas(d, k) == \E i \in 1..Len(d.keys) : d.keys[i] = k

DictSet(d, k, v) ==
    IF DictHas(d, k) THEN [d EXCEPT !.at = [x \in DOMAIN d.at |-> IF x = k THEN v ELSE d.at[x]]]
    ELSE [keys |-> Append(d.keys, k), at |-> (k :> v) @@ d.at]

(***************************************************************************)
(* PIIDetectionResult                                                      *)
(***************************************************************************)
\* PIIDetectionResult.__init__
NewPIIDetectionResult ==
    [found_pii |-> EmptyDict, is_safe |-> TRUE,
     risk_level |-> <<"l", "o", "w">>, message |-> <<>>]

\* PIIDetectionResult.add_pii
add_pii(result, category, values) ==
    LET had == IF DictHas(result.found_pii, category)
               THEN result.found_pii.at[category] ELSE <<>>
    IN  [result EXCEPT !.found_pii = DictSet(@, category, had \o values),
                       !.is_safe = FALSE]

(***************************************************************************)
(* PIIFilter                                                               *)
(***************************************************************************)
\* PIIFilter.__init__: the fields of the new filter.  No argument is
\* rejected.
PIIFilterInit(strict_mode) ==
    Return([strict_mode |-> strict_mode,
            compiled_patterns |->
                [keys |-> PATTERNS.keys,
                 at |-> [c \in DOMAIN PATTERNS.at |->
                            ReCompile(PATTERNS.at[c], TRUE)]]])

RECURSIVE SumLen(_, _)
\* sum(len(v) for v in d.values()), from the i-th key on.
SumLen(d, i) ==
    IF i > Len(d.keys) THEN 0
    ELSE Len(d.at[d.keys[i]]) + SumLen(d, i + 1)

\* RiskOf with the occurrences counted in place of the categories.
RiskOfOccurrences(result) ==
    LET n == SumLen(result.found_pii, 1)
    IN  IF n = 0
        THEN [result EXCEPT !.risk_level = <<"l", "o", "w">>]
        ELSE IF n = 1
        THEN [result EXCEPT !.risk_level = <<"m", "e", "d", "i", "u", "m">>]
        ELSE [result EXCEPT !.risk_level = <<"h", "i", "g", "h">>]

\* The risk level and message of a finished scan (lines 123-132).
RiskOf(result) ==
    LET n == Len(result.found_pii.keys)
    IN  IF n = 0
        THEN [result EXCEPT !.risk_level = <<"l", "o", "w">>,
                            !.message = <<"N", "o", " ", "P", "I", "I", " ", "d",
                                "e", "t", "e", "c", "t", "e", "d">>]
        ELSE IF n = 1
        THEN [result EXCEPT !.risk_level = <<"m", "e", "d", "i", "u", "m">>,
                            !.message = <<"S", "i", "n", "g", "l", "e", " ", "P",
                                "I", "I", " ", "t", "y", "p", "e", " ",
                                "d", "e", "t", "e", "c", "t", "e", "d">>]
        ELSE [result EXCEPT !.risk_level = <<"h", "i", "g", "h">>,
                            !.message = <<"M", "u", "l", "t", "i", "p", "l", "e",
                                " ", "P", "I", "I", " ", "t", "y", "p",
                                "e", "s", " ", "d", "e", "t", "e", "c",
                                "t", "e", "d">>]

\* pattern.findall(text) as called by detect_pii: a TypeError when text is
\* not a str.
CallFindAll(pattern, text) ==
    IF text.ty = "str" THEN Return(FindAll(pattern, text.s))
    ELSE Raise("TypeError")

RECURSIVE DetectLoop(_, _, _, _)
\* One turn of the loop of detect_pii, matches being what findall gave for
\* the i-th item of compiled_patterns: an exception leaves the loop and
\* the method, a non-empty list is recorded.
DetectStep(self, text, i, result, matches) ==
    IF matches.raised THEN matches
    ELSE IF Len(matches.value) > 0
    THEN DetectLoop(self, text, i + 1,
                    add_pii(result, self.compiled_patterns.keys[i],
                            matches.value))
    ELSE DetectLoop(self, text, i + 1, result)

\* The loop of detect_pii over compiled_patterns.items(), from the i-th
\* item on.
DetectLoop(self, text, i, result) ==
    IF i > Len(self.compiled_patterns.keys) THEN Return(result)
    ELSE DetectStep(self, text, i, result,
                    CallFindAll(self.compiled_patterns.at[
                                    self.compiled_patterns.keys[i]], text))

\* The end of detect_pii, scanned being how the loop ended.
DetectEnd(scanned) ==
    IF scanned.raised THEN scanned ELSE Return(RiskOf(scanned.value))

\* detect_pii without the early return on a false text.
detect_pii_unguarded(self, text) ==
    DetectEnd(DetectLoop(self, text, 1, NewPIIDetectionResult))

\* PIIFilter.detect_pii
detect_pii(self, text) ==
    IF ~Truthy(text) THEN Return(NewPIIDetectionResult)
    ELSE DetectEnd(DetectLoop(self, text, 1, NewPIIDetectionResult))

\* The placeholder sanitize_query writes for a category (lines 149-164).
Placeholder(category) ==
    CASE category = "CPF" -> <<"[", "C", "P", "F", " ", "R",
                                          "E", "M", "O", "V", "E", "D",
                                          "]">>
      [] category = "EMAIL" -> <<"[", "E", "M", "A", "I", "L",
                                          " ", "R", "E", "M", "O", "V",
                                          "E", "D", "]">>
      [] category = "PHONE" -> <<"[", "P", "H", "O", "N", "E",
                                          " ", "R", "E", "M", "O", "V",
                                          "E", "D", "]">>
      [] category = "CREDIT_CARD" -> <<"[", "C", "A", "R", "D", " ",
                                          "R", "E", "M", "O", "V", "E",
                                          "D", "]">>
      [] category = "PATIENT_NAME" -> <<"[", "N", "A", "M", "E", " ",
                                          "R", "E", "M", "O", "V", "E",
                                          "D", "]">>
      [] category = "ADDRESS" ->
             <<"[", "A", "D", "D", "R", "E", "S", "S", " ", "R", "E", "M",
               "O", "V", "E", "D", "]">>
      [] category = "MEDICAL_RECORD" -> <<"[", "M", "R", "N", " ", "R",
                                          "E", "M", "O", "V", "E", "D",
                                          "]">>
      [] OTHER -> <<"[">> \o StrUpper(CategoryValue[category])
                      \o <<" ", "R", "E", "M", "O", "V",
                                          "E", "D", "]">>

\* pattern.sub(repl, text) as called by sanitize_query: a TypeError when
\* text is not a str.
CallSub(pattern, repl, text) ==
    IF text.ty = "str" THEN Return(PyStr(Sub(pattern, repl, text.s)))
    ELSE Raise("TypeError")

RECURSIVE SanitizeLoop(_, _, _)
\* One turn of the loop of sanitize_query, next being what sub gave for
\* the i-th item of compiled_patterns.
SanitizeStep(self, i, next) ==
    IF next.raised THEN next ELSE SanitizeLoop(self, next.value, i + 1)

\* The loop of sanitize_query, from the i-th item of compiled_patterns on:
\* each substitution works on the text the earlier ones left.
SanitizeLoop(self, sanitized, i) ==
    IF i > Len(self.compiled_patterns.keys) THEN Return(sanitized)
    ELSE SanitizeStep(self, i,
                      CallSub(self.compiled_patterns.at[
                                  self.compiled_patterns.keys[i]],
                              Placeholder(self.compiled_patterns.keys[i]),
                              sanitized))

\* PIIFilter.sanitize_query
sanitize_query(self, text) == SanitizeLoop(self, text, 1)

RECURSIVE Join(_, _)
\* sep.join(items)
Join(sep, items) ==
    IF Len(items) = 0 THEN <<>>
    ELSE IF Len(items) = 1 THEN items[1]
    ELSE items[1] \o sep \o Join(sep, Tail(items))

\* [pii.value for pii in result.found_pii.keys()]
DetectedValues(result) ==
    [i \in 1..Len(result.found_pii.keys) |->
        CategoryValue[result.found_pii.keys[i]]]

\* ". Detected: " and the values of the categories found, comma-joined.
DetectedTail(result) ==
    <<".", " ", "D", "e", "t", "e", "c", "t", "e", "d", ":", " ">>
        \o Join(<<",", " ">>, DetectedValues(result))

\* ValidateResult that warns in either mode.
ValidateResultAlwaysWarns(self, result) ==
    IF result.is_safe
    THEN <<TRUE,
           <<"Q", "u", "e", "r", "y", " ", "i", "s", " ", "s", "a", "f", "e",
             " ", "-", " ", "n", "o", " ", "P", "I", "I", " ", "d", "e", "t",
             "e", "c", "t", "e", "d">>,
           result>>
    ELSE <<TRUE,
           <<"W", "A", "R", "N", "I", "N", "G", ":", " ">>
               \o result.message \o DetectedTail(result),
           result>>

\* validate_query after its call of detect_pii, result being what the call
\* returned (lines 180-188).
ValidateResult(self, result) ==
    IF result.is_safe
    THEN <<TRUE,
           <<"Q", "u", "e", "r", "y", " ", "i", "s", " ", "s", "a", "f", "e",
             " ", "-", " ", "n", "o", " ", "P", "I", "I", " ", "d", "e", "t",
             "e", "c", "t", "e", "d">>,
           result>>
    ELSE IF Truthy(self.strict_mode)
    THEN <<FALSE,
           <<"B", "L", "O", "C", "K", "E", "D", ":", " ">>
               \o result.message \o DetectedTail(result),
           result>>
    ELSE <<TRUE,
           <<"W", "A", "R", "N", "I", "N", "G", ":", " ">>
               \o result.message \o DetectedTail(result),
           result>>

\* validate_query after its call of detect_pii: an exception of the call
\* leaves the method.
ValidateEnd(self, detected) ==
    IF detected.raised THEN detected
    ELSE Return(ValidateResult(self, detected.value))

\* PIIFilter.validate_query: the triple (is_valid, message, result).
validate_query(self, query) == ValidateEnd(self, detect_pii(self, query))

\* PIIFilter.SENSITIVE_KEYWORDS
SENSITIVE_KEYWORDS ==
    <<<<"p", "a", "c", "i", "e", "n", "t", "e">>,
      <<"p", "a", "t", "i", "e", "n", "t">>,
      <<"n", "o", "m", "e">>,
      <<"n", "a", "m", "e">>,
      <<"d", "a", "t", "a", " ", "d", "e", " ", "n", "a", "s", "c", "i",
        "m", "e", "n", "t", "o">>,
      <<"d", "a", "t", "e", " ", "o", "f", " ", "b", "i", "r", "t", "h">>,
      <<"e", "n", "d", "e", "r", "e", "ç", "o">>,
      <<"a", "d", "d", "r", "e", "s", "s">>,
      <<"t", "e", "l", "e", "f", "o", "n", "e">>,
      <<"p", "h", "o", "n", "e">>,
      <<"C", "P", "F">>,
      <<"R", "G">>,
      <<"p", "r", "o", "n", "t", "u", "á", "r", "i", "o">>,
      <<"m", "e", "d", "i", "c", "a", "l", " ", "r", "e", "c", "o", "r",
        "d">>,
      <<"h", "i", "s", "t", "ó", "r", "i", "c", "o", " ", "m", "é", "d",
        "i", "c", "o">>,
      <<"m", "e", "d", "i", "c", "a", "l", " ", "h", "i", "s", "t", "o",
        "r", "y">>,
      <<"d", "i", "a", "g", "n", "ó", "s", "t", "i", "c", "o">>,
      <<"d", "i", "a", "g", "n", "o", "s", "i", "s">>,
      <<"t", "r", "a", "t", "a", "m", "e", "n", "t", "o">>,
      <<"t", "r", "e", "a", "t", "m", "e", "n", "t">>,
      <<"m", "e", "d", "i", "c", "a", "ç", "ã", "o">>,
      <<"m", "e", "d", "i", "c", "a", "t", "i", "o", "n">>,
      <<"a", "l", "e", "r", "g", "i", "a">>,
      <<"a", "l", "l", "e", "r", "g", "y">>>>

\* needle in hay, for two strs.
Contains(hay, needle) ==
    \E i \in 0..(Len(hay) - Len(needle)) :
        SubSeq(hay, i + 1, i + Len(needle)) = needle

\* PIIFilter.check_patient_context: text.lower() is an AttributeError when
\* text is not a str.
check_patient_context(self, text) ==
    IF text.ty # "str" THEN Raise("AttributeError")
    ELSE LET text_lower == StrLower(text.s)
         IN  Return(\E i \in 1..Len(SENSITIVE_KEYWORDS) :
                        Contains(text_lower, SENSITIVE_KEYWORDS[i]))

\* PIIFilter.create_filter_report; now is the reading of
\* datetime.utcnow().isoformat().  len(query) is a TypeError when query is
\* not a str, and is evaluated before anything that could fail.
create_filter_report(self, query, result, now) ==
    IF query.ty # "str" THEN Raise("TypeError")
    ELSE Return([timestamp |-> now,
                 query_length |-> Len(query.s),
                 is_safe |-> result.is_safe,
                 risk_level |-> result.risk_level,
                 detected_pii_types |-> result.found_pii.keys,
                 detected_pii_count |-> SumLen(result.found_pii, 1),
                 message |-> result.message,
                 patient_context_detected |->
                     check_patient_context(self, query).value])

(***************************************************************************)
(* JSON, as json.loads and json.dumps of the standard library read and     *)
(* write it.  A body is the sequence of its characters.  Numbers are       *)
(* integers, and the \u escapes are those of the accented letters above.   *)
(***************************************************************************)
PyList(items) == [ty |-> "list", items |-> items]

\* A dict with str keys: d is the insertion-ordered dict of its items, a
\* key being the sequence of its characters.
PyDict(d) == [ty |-> "dict", d |-> d]

JsonWhitespace == {" ", "\t", "\n", "\r"}

\* The characters a string cannot hold unescaped.
JsonControl == {"\t", "\n", "\r"}

\* What follows the backslash of a two-character escape, and the character
\* the escape stands for.
JsonEscapes ==
    [c \in {"\"", "\\", "/", "n", "t", "r"} |->
        CASE c = "n" -> "\n" [] c = "t" -> "\t" [] c = "r" -> "\r"
          [] OTHER -> c]

\* The four hexadecimal digits of the \u escape of a character that is not
\* ASCII, as json.dumps writes them; json.loads reads them in either case.
UnicodeEscapes ==
    [c \in AccentedLower \cup AccentedUpper |->
        CASE c = "á" -> <<"0", "0", "e", "1">>
          [] c = "ã" -> <<"0", "0", "e", "3">>
          [] c = "ç" -> <<"0", "0", "e", "7">>
          [] c = "é" -> <<"0", "0", "e", "9">>
          [] c = "ó" -> <<"0", "0", "f", "3">>
          [] c = "Á" -> <<"0", "0", "c", "1">>
          [] c = "Ã" -> <<"0", "0", "c", "3">>
          [] c = "Ç" -> <<"0", "0", "c", "7">>
          [] c = "É" -> <<"0", "0", "c", "9">>
          [] c = "Ó" -> <<"0", "0", "d", "3">>
          [] c = "â" -> <<"0", "0", "e", "2">>
          [] c = "ê" -> <<"0", "0", "e", "a">>
          [] c = "ú" -> <<"0", "0", "f", "a">>
          [] c = "Â" -> <<"0", "0", "c", "2">>
          [] c = "Ê" -> <<"0", "0", "c", "a">>
          [] c = "Ú" -> <<"0", "0", "d", "a">>]

DigitChars == <<"0", "1", "2", "3", "4", "5", "6", "7", "8", "9">>

DigitValue(c) == (CHOOSE k \in 1..10 : DigitChars[k] = c) - 1

\* What the scanner gives: no value, or a value and the position after it.
JsonFail == [ok |-> FALSE]

JsonAt(value, next) == [ok |-> TRUE, value |-> value, next |-> next]

\* s[i] exists and is c.
IsAt(s, i, c) == i <= Len(s) /\ s[i] = c

RECURSIVE SkipWs(_, _)
\* The first position from i on that holds no whitespace.
SkipWs(s, i) ==
    IF i <= Len(s) /\ s[i] \in JsonWhitespace THEN SkipWs(s, i + 1) ELSE i

RECURSIVE ScanString(_, _, _)
\* The string whose opening quote is before position i, acc being the
\* characters read so far.
ScanString(s, i, acc) ==
    IF i > Len(s) \/ s[i] \in JsonControl THEN JsonFail
    ELSE IF s[i] = "\"" THEN JsonAt(PyStr(acc), i + 1)
    ELSE IF s[i] # "\\" THEN ScanString(s, i + 1, Append(acc, s[i]))
    ELSE IF i + 1 > Len(s) THEN JsonFail
    ELSE IF s[i + 1] \in DOMAIN JsonEscapes
    THEN ScanString(s, i + 2, Append(acc, JsonEscapes[s[i + 1]]))
    ELSE IF s[i + 1] = "u" /\ i + 5 <= Len(s)
            /\ \E c \in DOMAIN UnicodeEscapes :
                   UnicodeEscapes[c] = StrLower(SubSeq(s, i + 2, i + 5))
    THEN ScanString(s, i + 6,
             Append(acc, CHOOSE c \in DOMAIN UnicodeEscapes :
                             UnicodeEscapes[c] = StrLower(SubSeq(s, i + 2, i + 5))))
    ELSE JsonFail

RECURSIVE ScanDigits(_, _, _)
\* The digits from position i on, n being the value of those before.
ScanDigits(s, i, n) ==
    IF i <= Len(s) /\ s[i] \in Digits
    THEN ScanDigits(s, i + 1, 10 * n + DigitValue(s[i]))
    ELSE JsonAt(PyInt(n), i)

\* An integer without its sign: one digit zero, or digits that do not
\* start with zero.
ScanNatural(s, i) ==
    IF i > Len(s) \/ s[i] \notin Digits THEN JsonFail
    ELSE IF s[i] = "0" THEN JsonAt(PyInt(0), i + 1)
    ELSE ScanDigits(s, i, 0)

Negated(r) == IF r.ok THEN JsonAt(PyInt(0 - r.value.n), r.next) ELSE r

\* The literal lit, worth value, if it stands at position i.
ScanLiteral(s, i, lit, value) ==
    IF i + Len(lit) - 1 <= Len(s) /\ SubSeq(s, i, i + Len(lit) - 1) = lit
    THEN JsonAt(value, i + Len(lit))
    ELSE JsonFail

RECURSIVE ScanValue(_, _)
RECURSIVE ScanElements(_, _, _)
RECURSIVE ScanMembers(_, _, _)
\* The position of what follows the value r and the whitespace after it.
NextOf(s, r) == SkipWs(s, r.next)

\* After element r of an array: a comma and more elements, or the end.
AfterElement(s, r, acc) ==
    IF ~r.ok THEN JsonFail
    ELSE IF IsAt(s, NextOf(s, r), ",")
    THEN ScanElements(s, SkipWs(s, NextOf(s, r) + 1), Append(acc, r.value))
    ELSE IF IsAt(s, NextOf(s, r), "]")
    THEN JsonAt(PyList(Append(acc, r.value)), NextOf(s, r) + 1)
    ELSE JsonFail

\* The elements of an array from position i on, acc being those before.
ScanElements(s, i, acc) ==
    AfterElement(s, ScanValue(s, i), acc)

\* After the value r of the member with key k: a comma and more members,
\* or the end.  A key met again keeps its place and takes the new value.
AfterMember(s, k, r, d) ==
    IF ~r.ok THEN JsonFail
    ELSE IF IsAt(s, NextOf(s, r), ",")
    THEN ScanMembers(s, SkipWs(s, NextOf(s, r) + 1), DictSet(d, k, r.value))
    ELSE IF IsAt(s, NextOf(s, r), "}")
    THEN JsonAt(PyDict(DictSet(d, k, r.value)), NextOf(s, r) + 1)
    ELSE JsonFail

\* After the key k of a member: a colon and the value.
AfterKey(s, k, d) ==
    IF ~k.ok THEN JsonFail
    ELSE IF ~IsAt(s, NextOf(s, k), ":") THEN JsonFail
    ELSE AfterMember(s, k.value.s,
                     ScanValue(s, SkipWs(s, NextOf(s, k) + 1)), d)

\* The members of an object from position i on, d holding those before.
ScanMembers(s, i, d) ==
    IF ~IsAt(s, i, "\"") THEN JsonFail
    ELSE AfterKey(s, ScanString(s, i + 1, <<>>), d)

\* The value that starts at position i.
ScanValue(s, i) ==
    IF i > Len(s) THEN JsonFail
    ELSE IF s[i] = "\"" THEN ScanString(s, i + 1, <<>>)
    ELSE IF s[i] = "{"
    THEN IF IsAt(s, SkipWs(s, i + 1), "}")
         THEN JsonAt(PyDict(EmptyDict), SkipWs(s, i + 1) + 1)
         ELSE ScanMembers(s, SkipWs(s, i + 1), EmptyDict)
    ELSE IF s[i] = "["
    THEN IF IsAt(s, SkipWs(s, i + 1), "]")
         THEN JsonAt(PyList(<<>>), SkipWs(s, i + 1) + 1)
         ELSE ScanElements(s, SkipWs(s, i + 1), <<>>)
    ELSE IF s[i] = "-" THEN Negated(ScanNatural(s, i + 1))
    ELSE IF s[i] \in Digits THEN ScanNatural(s, i)
    ELSE IF s[i] = "n" THEN ScanLiteral(s, i, <<"n", "u", "l", "l">>, PyNone)
    ELSE IF s[i] = "t"
    THEN ScanLiteral(s, i, <<"t", "r", "u", "e">>, PyBool(TRUE))
    ELSE IF s[i] = "f"
    THEN ScanLiteral(s, i, <<"f", "a", "l", "s", "e">>, PyBool(FALSE))
    ELSE JsonFail

\* json.loads after the scan of the one value: nothing but whitespace may
\* follow it.
LoadsEnd(s, r) ==
    IF r.ok /\ SkipWs(s, r.next) = Len(s) + 1 THEN Return(r.value)
    ELSE Raise("JSONDecodeError")

\* json.loads(s)
JsonLoads(s) == LoadsEnd(s, ScanValue(s, SkipWs(s, 1)))

RECURSIVE DumpChars(_, _)
\* The characters of a str from position i on, as json.dumps escapes them
\* (ensure_ascii is on).
DumpChars(s, i) ==
    IF i > Len(s) THEN <<>>
    ELSE (CASE s[i] = "\"" -> <<"\\", "\"">>
            [] s[i] = "\\" -> <<"\\", "\\">>
            [] s[i] = "\n" -> <<"\\", "n">>
            [] s[i] = "\t" -> <<"\\", "t">>
            [] s[i] = "\r" -> <<"\\", "r">>
            [] s[i] \in DOMAIN UnicodeEscapes ->
                   <<"\\", "u">> \o UnicodeEscapes[s[i]]
            [] OTHER -> <<s[i]>>) \o DumpChars(s, i + 1)

DumpStr(s) == <<"\"">> \o DumpChars(s, 1) \o <<"\"">>

RECURSIVE DumpNat(_)
\* The decimal digits of a natural number.
DumpNat(n) ==
    IF n < 10 THEN <<DigitChars[n + 1]>>
    ELSE DumpNat(n \div 10) \o <<DigitChars[(n % 10) + 1]>>

RECURSIVE JsonDumps(_)
RECURSIVE DumpItems(_, _)
RECURSIVE DumpMembers(_, _)
\* The elements of a list from the i-th on, joined by ", ".
DumpItems(items, i) ==
    IF i > Len(items) THEN <<>>
    ELSE (IF i > 1 THEN <<",", " ">> ELSE <<>>)
             \o JsonDumps(items[i]) \o DumpItems(items, i + 1)

\* The items of a dict from the i-th on, key and value joined by ": ".
DumpMembers(d, i) ==
    IF i > Len(d.keys) THEN <<>>
    ELSE (IF i > 1 THEN <<",", " ">> ELSE <<>>)
             \o DumpStr(d.keys[i]) \o <<":", " ">>
             \o JsonDumps(d.at[d.keys[i]]) \o DumpMembers(d, i + 1)

\* json.dumps(v)
JsonDumps(v) ==
    CASE v.ty = "str" -> DumpStr(v.s)
      [] v.ty = "int" ->
             IF v.n < 0 THEN <<"-">> \o DumpNat(0 - v.n) ELSE DumpNat(v.n)
      [] v.ty = "bool" ->
             IF v.b THEN <<"t", "r", "u", "e">>
             ELSE <<"f", "a", "l", "s", "e">>
      [] v.ty = "NoneType" -> <<"n", "u", "l", "l">>
      [] v.ty = "list" -> <<"[">> \o DumpItems(v.items, 1) \o <<"]">>
      [] v.ty = "dict" -> <<"{">> \o DumpMembers(v.d, 1) \o <<"}">>

(***************************************************************************)
(* PIIProtectionMiddleware.dispatch of pii_protection_middleware.py.  The  *)
(* coroutine is followed from one await of call_next to the next.          *)
(***************************************************************************)
\* The keys and the role the code names.
KeyMessages ==
    <<"m", "e", "s", "s", "a", "g", "e", "s">>

KeyRole ==
    <<"r", "o", "l", "e">>

KeyContent ==
    <<"c", "o", "n", "t", "e", "n", "t">>

RoleUser ==
    <<"u", "s", "e", "r">>

\* The two endings of the paths that are intercepted (line 33).
ChatPathV1 ==
    <<"/", "v", "1", "/", "c", "h", "a", "t", "/", "c", "o", "m", "p", "l",
      "e", "t", "i", "o", "n", "s">>

ChatPathApi ==
    <<"/", "a", "p", "i", "/", "c", "h", "a", "t", "/", "c", "o", "m", "p",
      "l", "e", "t", "i", "o", "n", "s">>

\* The response headers of lines 106 and 108.
HeaderDetected ==
    <<"X", "-", "P", "I", "I", "-", "D", "e", "t", "e", "c", "t", "e", "d">>

HeaderTypes ==
    <<"X", "-", "P", "I", "I", "-", "T", "y", "p", "e", "s">>

\* s.endswith(suffix)
EndsWith(s, suffix) ==
    /\ Len(suffix) <= Len(s)
    /\ SubSeq(s, Len(s) - Len(suffix) + 1, Len(s)) = suffix

\* d.get(k, default)
DictGet(d, k, default) == IF DictHas(d, k) THEN d.at[k] ELSE default

\* v == "user" for a value v of any type
IsStr(v, s) == v.ty = "str" /\ v.s = s

\* self.pii_filter of the middleware: PIIFilter(strict_mode=False), made
\* once by __init__ (line 24).
MiddlewareFilter == PIIFilterInit(PyBool(FALSE)).value

\* How the part of dispatch before line 101 ends: at the call_next of line
\* 44 or at the one of line 101, with the body the request then has and
\* the two locals that signal a detection.
NotJson(body) ==
    [site |-> "line44", body |-> body,
     pii_detected |-> FALSE, pii_types |-> <<>>]

PassThrough(body) ==
    [site |-> "line101", body |-> body,
     pii_detected |-> FALSE, pii_types |-> <<>>]

Rewritten(body, types) ==
    [site |-> "line101", body |-> body,
     pii_detected |-> TRUE, pii_types |-> types]

RECURSIVE FindInList(_, _)
\* FindInList that takes the first user message of the list.
FindInListFirst(items, idx) ==
    IF \E i \in 1..idx : items[i].ty # "dict" THEN Raise("AttributeError")
    ELSE IF \E i \in 1..idx :
                IsStr(DictGet(items[i].d, KeyRole, PyNone), RoleUser)
    THEN LET first == CHOOSE i \in 1..idx :
                 /\ IsStr(DictGet(items[i].d, KeyRole, PyNone), RoleUser)
                 /\ \A j \in 1..(i - 1) :
                        ~IsStr(DictGet(items[j].d, KeyRole, PyNone), RoleUser)
         IN  Return([idx |-> first,
                     content |->
                         DictGet(items[first].d, KeyContent, PyStr(<<>>))])
    ELSE Return([idx |-> 0, content |-> PyNone])

\* Lines 51-55 on a list: the last message from the idx-th down whose role
\* is "user", with its content; idx 0 stands for None.  A message that is
\* not a dict has no get.
FindInList(items, idx) ==
    IF idx = 0 THEN Return([idx |-> 0, content |-> PyNone])
    ELSE IF items[idx].ty # "dict" THEN Raise("AttributeError")
    ELSE IF IsStr(DictGet(items[idx].d, KeyRole, PyNone), RoleUser)
    THEN Return([idx |-> idx,
                 content |-> DictGet(items[idx].d, KeyContent, PyStr(<<>>))])
    ELSE FindInList(items, idx - 1)

\* Lines 48-55 on whatever "messages" holds: len() of a value without
\* length is a TypeError, a character of a str has no get, and a dict with
\* str keys has no item at an int.
FindLastUser(messages) ==
    CASE messages.ty = "list" -> FindInList(messages.items, Len(messages.items))
      [] messages.ty = "str" ->
             IF Len(messages.s) = 0
             THEN Return([idx |-> 0, content |-> PyNone])
             ELSE Raise("AttributeError")
      [] messages.ty = "dict" ->
             IF Len(messages.d.keys) = 0
             THEN Return([idx |-> 0, content |-> PyNone])
             ELSE Raise("KeyError")
      [] OTHER -> Raise("TypeError")

\* Lines 82-83: the payload with the content of message idx replaced.
RewriteMessage(data, messages, idx, sanitized) ==
    PyDict(DictSet(data.d, KeyMessages,
        PyList([messages.items EXCEPT
                   ![idx] = PyDict(DictSet(@.d, KeyContent, sanitized))])))

\* Lines 65-91, sanitized being how sanitize_query ended.
AfterSanitize(body, data, messages, idx, detection, sanitized) ==
    IF sanitized.raised THEN PassThrough(body)
    ELSE Rewritten(
             JsonDumps(RewriteMessage(data, messages, idx, sanitized.value)),
             DetectedValues(detection))

\* AfterDetect that takes a failure of detect_pii for a detection.
AfterDetectFailing(self, body, data, messages, found, detection) ==
    IF detection.raised THEN Rewritten(JsonDumps(data), <<>>)
    ELSE IF detection.value.is_safe THEN PassThrough(body)
    ELSE AfterSanitize(body, data, messages, found.idx, detection.value,
                       sanitize_query(self, found.content))

\* Lines 61-94, detection being how detect_pii ended.
AfterDetect(self, body, data, messages, found, detection) ==
    IF detection.raised THEN PassThrough(body)
    ELSE IF detection.value.is_safe THEN PassThrough(body)
    ELSE AfterSanitize(body, data, messages, found.idx, detection.value,
                       sanitize_query(self, found.content))

\* Lines 57-94, found being how the search of the last user message
\* ended.  user_message[:100] is a TypeError unless the content is a str
\* or a list.
AfterFind(self, body, data, messages, found) ==
    IF found.raised THEN PassThrough(body)
    ELSE IF found.value.idx = 0 \/ ~Truthy(found.value.content)
    THEN PassThrough(body)
    ELSE IF found.value.content.ty \notin {"str", "list"}
    THEN PassThrough(body)
    ELSE AfterDetect(self, body, data, messages, found.value,
                     detect_pii(self, found.value.content))

\* Lines 47-94 on the payload data.
AfterData(self, body, data, messages) ==
    AfterFind(self, body, data, messages, FindLastUser(messages))

\* Lines 40-94, loaded being how json.loads ended.  A payload that is not
\* a dict has no get.
AfterLoads(self, body, loaded) ==
    IF loaded.raised THEN NotJson(body)
    ELSE IF loaded.value.ty # "dict" THEN PassThrough(body)
    ELSE AfterData(self, body, loaded.value,
                   DictGet(loaded.value.d, KeyMessages, PyList(<<>>)))

\* Lines 33-98 of dispatch: what is done before call_next is first called.
\* Every exception but the JSONDecodeError of line 42 ends in the handler
\* of line 96.
Intercept(self, request) ==
    IF ~(\/ EndsWith(request.path, ChatPathV1)
         \/ EndsWith(request.path, ChatPathApi))
    THEN PassThrough(request.stream)
    ELSE IF request.method # "POST" THEN PassThrough(request.stream)
    ELSE IF request.body_fails THEN PassThrough(request.stream)
    ELSE IF Len(request.stream) = 0 THEN PassThrough(request.stream)
    ELSE AfterLoads(self, request.stream, JsonLoads(request.stream))

\* Lines 104-111: the headers of the response after the signaling.
SetHeaders(headers, pii_detected, pii_types) ==
    IF ~pii_detected THEN headers
    ELSE IF Len(pii_types) = 0
    THEN DictSet(headers, HeaderDetected, <<"t", "r", "u", "e">>)
    ELSE DictSet(DictSet(headers, HeaderDetected, <<"t", "r", "u", "e">>),
                 HeaderTypes, Join(<<",">>, pii_types))

(***************************************************************************)
(* The registration of the PubMed tool server: utils/medical_integration.py *)
(* and utils/mcp/pubmed_setup.py, with is_medical_query of                 *)
(* utils/medical_prompts.py.                                               *)
(***************************************************************************)
\* The dict with the given <<key, value>> pairs, in their order.
DictOf(pairs) ==
    [keys |-> [i \in 1..Len(pairs) |-> pairs[i][1]],
     at |-> [k \in {pairs[i][1] : i \in 1..Len(pairs)} |->
                pairs[CHOOSE i \in 1..Len(pairs) : pairs[i][1] = k][2]]]

KeyInfo == <<"i", "n", "f", "o">>

KeyId == <<"i", "d">>

KeyUrl == <<"u", "r", "l">>

KeyText == <<"t", "e", "x", "t">>

KeyToolIds == <<"t", "o", "o", "l", "_", "i", "d", "s">>

PUBMED_MCP_ID == <<"p", "u", "b", "m", "e", "d", "-", "m", "c", "p">>

\* f"server:mcp:{PUBMED_MCP_ID}"
PUBMED_MCP_TOOL_ID ==
    <<"s", "e", "r", "v", "e", "r", ":", "m", "c", "p", ":">> \o PUBMED_MCP_ID

\* get_pubmed_mcp_config(), the same in the two modules.
get_pubmed_mcp_config ==
    PyDict(DictOf(<<
        <<KeyUrl, PyStr(<<"h", "t", "t", "p", ":", "/", "/", "p", "u", "b", "m", "e", "d",
            "-", "m", "c", "p", ":", "8", "0", "0", "0", "/", "s", "s", "e">>)>>,
        <<<<"p", "a", "t", "h">>, PyStr(<<"/", "s", "s", "e">>)>>,
        <<<<"t", "y", "p", "e">>, PyStr(<<"m", "c", "p">>)>>,
        <<<<"a", "u", "t", "h", "_", "t", "y", "p", "e">>, PyStr(<<"n", "o", "n", "e">>)>>,
        <<<<"k", "e", "y">>, PyNone>>,
        <<<<"c", "o", "n", "f", "i", "g">>, PyDict(EmptyDict)>>,
        <<KeyInfo, PyDict(DictOf(<<
            <<KeyId, PyStr(PUBMED_MCP_ID)>>,
            <<<<"n", "a", "m", "e">>, PyStr(<<"P", "u", "b", "M", "e", "d", " ", "M", "C", "P", " ", "S",
                "e", "r", "v", "e", "r">>)>>,
            <<<<"d", "e", "s", "c", "r", "i", "p", "t", "i", "o", "n">>, PyStr(<<"M", "e", "d", "i", "c", "a", "l", " ", "l", "i", "t", "e",
                "r", "a", "t", "u", "r", "e", " ", "s", "e", "a", "r", "c",
                "h", " ", "a", "n", "d", " ", "c", "o", "m", "p", "r", "e",
                "h", "e", "n", "s", "i", "v", "e", " ", "a", "n", "a", "l",
                "y", "s", "i", "s", " ", "u", "s", "i", "n", "g", " ", "P",
                "u", "b", "M", "e", "d">>)>>,
            <<<<"v", "e", "r", "s", "i", "o", "n">>, PyStr(<<"1", ".", "0", ".", "0">>)>>
        >>))>>
    >>))

RECURSIVE AnyPubmed(_, _)
\* AnyPubmed that looks at the first connection only.
AnyPubmedFirstOnly(items, i) ==
    IF i > Len(items) THEN Return(FALSE)
    ELSE IF items[i].ty # "dict" THEN Raise("AttributeError")
    ELSE IF DictGet(items[i].d, KeyInfo, PyDict(EmptyDict)).ty # "dict"
    THEN Raise("AttributeError")
    ELSE Return(IsStr(DictGet(DictGet(items[i].d, KeyInfo,
                                      PyDict(EmptyDict)).d, KeyId, PyNone),
                      PUBMED_MCP_ID))

\* any(conn.get("info", {}).get("id") == PUBMED_MCP_ID for conn in ...)
\* from the i-th connection on: a connection or an info that is not a
\* dict has no get, and any stops at the first True.
AnyPubmed(items, i) ==
    IF i > Len(items) THEN Return(FALSE)
    ELSE IF items[i].ty # "dict" THEN Raise("AttributeError")
    ELSE IF DictGet(items[i].d, KeyInfo, PyDict(EmptyDict)).ty # "dict"
    THEN Raise("AttributeError")
    ELSE IF IsStr(DictGet(DictGet(items[i].d, KeyInfo,
                                  PyDict(EmptyDict)).d, KeyId, PyNone),
                  PUBMED_MCP_ID)
    THEN Return(TRUE)
    ELSE AnyPubmed(items, i + 1)

\* config has no "TOOL_SERVER_CONNECTIONS".
Absent == [ty |-> "absent"]

\* How a call on the registry ends: what it returns and what
\* config["TOOL_SERVER_CONNECTIONS"] then holds.
Registry(value, connections) == [value |-> value, connections |-> connections]

\* Lines 61-76 of ensure_pubmed_mcp_registered and 40-52 of
\* setup_pubmed_mcp: current is the list looked at, which is the one in
\* config unless the key was absent; already is what is returned when the
\* server is there.
Register(connections, current, exists, already) ==
    IF exists.raised THEN Registry(FALSE, connections)
    ELSE IF exists.value THEN Registry(already, connections)
    ELSE Registry(TRUE, PyList(Append(current, get_pubmed_mcp_config)))

\* ensure_pubmed_mcp_registered(app_state): has_config is
\* hasattr(app_state, 'config').  What is not a list is taken for an empty
\* one.
ensure_pubmed_mcp_registered(has_config, connections) ==
    IF ~has_config THEN Registry(FALSE, connections)
    ELSE IF connections.ty # "list"
    THEN Register(connections, <<>>, Return(FALSE), TRUE)
    ELSE Register(connections, connections.items,
                  AnyPubmed(connections.items, 1), TRUE)

\* setup_pubmed_mcp(app_state)
setup_pubmed_mcp(connections) ==
    IF connections.ty = "absent"
    THEN Register(connections, <<>>, Return(FALSE), FALSE)
    ELSE IF connections.ty # "list" THEN Registry(FALSE, connections)
    ELSE Register(connections, connections.items,
                  AnyPubmed(connections.items, 1), FALSE)

\* The keywords of is_medical_query.
medical_keywords ==
    <<<<"p", "a", "c", "i", "e", "n", "t", "e">>,
      <<"p", "a", "t", "i", "e", "n", "t">>,
      <<"d", "o", "e", "n", "ç", "a">>,
      <<"d", "i", "s", "e", "a", "s", "e">>,
      <<"s", "i", "n", "t", "o", "m", "a">>,
      <<"s", "y", "m", "p", "t", "o", "m">>,
      <<"t", "r", "a", "t", "a", "m", "e", "n", "t", "o">>,
      <<"t", "r", "e", "a", "t", "m", "e", "n", "t">>,
      <<"m", "e", "d", "i", "c", "a", "ç", "ã", "o">>,
      <<"m", "e", "d", "i", "c", "a", "t", "i", "o", "n">>,
      <<"d", "o", "r">>,
      <<"p", "a", "i", "n">>,
      <<"s", "a", "ú", "d", "e">>,
      <<"h", "e", "a", "l", "t", "h">>,
      <<"m", "é", "d", "i", "c", "o">>,
      <<"d", "o", "c", "t", "o", "r">>,
      <<"d", "i", "a", "g", "n", "ó", "s", "t", "i", "c", "o">>,
      <<"d", "i", "a", "g", "n", "o", "s", "i", "s">>,
      <<"p", "r", "e", "s", "s", "ã", "o">>,
      <<"p", "r", "e", "s", "s", "u", "r", "e">>,
      <<"f", "e", "b", "r", "e">>,
      <<"f", "e", "v", "e", "r">>,
      <<"t", "o", "s", "s", "e">>,
      <<"c", "o", "u", "g", "h">>,
      <<"d", "o", "r", " ", "n", "o", " ", "p", "e", "i", "t", "o">>,
      <<"c", "h", "e", "s", "t", " ", "p", "a", "i", "n">>,
      <<"f", "a", "l", "t", "a", " ", "d", "e", " ", "a", "r">>,
      <<"s", "h", "o", "r", "t", "n", "e", "s", "s", " ", "o", "f", " ",
        "b", "r", "e", "a", "t", "h">>,
      <<"t", "a", "q", "u", "i", "c", "a", "r", "d", "i", "a">>,
      <<"a", "r", "r", "i", "t", "m", "i", "a">>,
      <<"i", "n", "s", "u", "f", "i", "c", "i", "ê", "n", "c", "i", "a">>,
      <<"h", "i", "p", "e", "r", "t", "e", "n", "s", "ã", "o">>,
      <<"d", "i", "a", "b", "e", "t", "e", "s">>,
      <<"c", "o", "v", "i", "d">>,
      <<"i", "n", "f", "e", "c", "ç", "ã", "o">>,
      <<"i", "n", "f", "l", "a", "m", "a", "ç", "ã", "o">>,
      <<"c", "â", "n", "c", "e", "r">>,
      <<"t", "u", "m", "o", "r">>,
      <<"l", "e", "s", "ã", "o">>,
      <<"a", "l", "e", "r", "g", "i", "a">>,
      <<"a", "l", "l", "e", "r", "g", "y">>,
      <<"a", "s", "m", "a">>,
      <<"b", "r", "o", "n", "q", "u", "i", "t", "e">>,
      <<"p", "n", "e", "u", "m", "o", "n", "i", "a">>>>

\* is_medical_query(query): lower() exists on a str only.
is_medical_query(query) ==
    IF query.ty # "str" THEN Raise("AttributeError")
    ELSE Return(\E i \in 1..Len(medical_keywords) :
                    Contains(StrLower(query.s), medical_keywords[i]))

RECURSIVE JoinTexts(_, _)
\* " ".join of the "text" of the items of a list content that are dicts
\* with a "text", from the i-th on; join takes strs only.
JoinTexts(items, i) ==
    IF i > Len(items) THEN Return(<<>>)
    ELSE IF ~(items[i].ty = "dict" /\ DictHas(items[i].d, KeyText))
    THEN JoinTexts(items, i + 1)
    ELSE IF items[i].d.at[KeyText].ty # "str" THEN Raise("TypeError")
    ELSE IF JoinTexts(items, i + 1).raised THEN Raise("TypeError")
    ELSE Return(<<items[i].d.at[KeyText].s>>
                    \o JoinTexts(items, i + 1).value)

\* Lines 104-109: the query a user message holds.
QueryOf(content) ==
    IF content.ty # "list" THEN Return(content)
    ELSE IF JoinTexts(content.items, 1).raised THEN Raise("TypeError")
    ELSE Return(PyStr(Join(<<" ">>, JoinTexts(content.items, 1).value)))

RECURSIVE QueryIn(_, _)
\* Lines 101-110: the query of the last user message from the i-th down,
\* None if there is none.
QueryIn(items, i) ==
    IF i = 0 THEN Return(PyNone)
    ELSE IF items[i].ty # "dict" THEN Raise("AttributeError")
    ELSE IF IsStr(DictGet(items[i].d, KeyRole, PyNone), RoleUser)
    THEN QueryOf(DictGet(items[i].d, KeyContent, PyStr(<<>>)))
    ELSE QueryIn(items, i - 1)

\* Lines 97-110: messages that are true and not a list cannot be walked
\* as messages.
ExtractQuery(form_data) ==
    IF form_data.ty # "dict" THEN Raise("AttributeError")
    ELSE IF ~Truthy(DictGet(form_data.d, KeyMessages, PyList(<<>>)))
    THEN Return(PyNone)
    ELSE IF form_data.d.at[KeyMessages].ty # "list"
    THEN Raise("TypeError")
    ELSE QueryIn(form_data.d.at[KeyMessages].items,
                 Len(form_data.d.at[KeyMessages].items))

\* Lines 117-125: the form data with the tool of the server among its
\* tool_ids.
WithTool(form_data, tool_ids) ==
    IF \E i \in 1..Len(tool_ids) : IsStr(tool_ids[i], PUBMED_MCP_TOOL_ID)
    THEN form_data
    ELSE PyDict(DictSet(form_data.d, KeyToolIds,
             PyList(Append(tool_ids, PyStr(PUBMED_MCP_TOOL_ID)))))

\* Lines 113-125, registered being how ensure_pubmed_mcp_registered
\* ended.
AfterEnsure(form_data, registered) ==
    IF ~registered.value THEN form_data
    ELSE IF DictGet(form_data.d, KeyToolIds, PyList(<<>>)).ty # "list"
    THEN WithTool(form_data, <<>>)
    ELSE WithTool(form_data,
                  DictGet(form_data.d, KeyToolIds, PyList(<<>>)).items)

\* Lines 112-113, medical being how the test of the query ended.
AfterQuery(form_data, connections, medical, registered) ==
    IF medical.raised THEN Registry(form_data, connections)
    ELSE IF ~medical.value THEN Registry(form_data, connections)
    ELSE Registry(AfterEnsure(form_data, registered),
                  registered.connections)

\* auto_select_medical_tools(form_data, app_state): every exception ends
\* in the handler of line 127 and the form data is returned.
auto_select_medical_tools(form_data, connections) ==
    IF ExtractQuery(form_data).raised
    THEN Registry(form_data, connections)
    ELSE IF ~Truthy(ExtractQuery(form_data).value)
    THEN Registry(form_data, connections)
    ELSE AfterQuery(form_data, connections,
                    is_medical_query(ExtractQuery(form_data).value),
                    ensure_pubmed_mcp_registered(TRUE, connections))

(***************************************************************************)
(* The inputs of the model.                                                *)
(***************************************************************************)
\* A text is at most MaxFrags fragments long and at most MaxLen characters.
MaxFrags == 2

MaxLen == 24

\* The fragments the texts are made of: a medical record number, an e-mail
\* address, a card number, eleven digits (a CPF number and a phone
\* number), a word, a street address, a phone number with the country
\* code, an IP address.
Fragments ==
    <<<<"M", "R", "N", "7">>,
      <<"a", "@", "b", ".", "c", "o">>,
      <<"1", "2", "3", "4", "-", "5", "6", "7", "8", "-",
        "9", "0", "1", "2", "-", "3", "4", "5", "6">>,
      <<"1", "2", "3", "4", "5", "6", "7", "8", "9", "0", "1">>,
      <<"p", "a", "t", "i", "e", "n", "t">>,
      <<"1", " ", "x", "s", "t">>,
      <<"+", "5", "5", "1", "1", " ", "1", "2", "3", "4", "5", "6", "7", "8">>,
      <<"1", ".", "2", ".", "3", ".", "4">>>>

RECURSIVE TextsOf(_)
\* The texts of at most n fragments.
TextsOf(n) ==
    IF n = 0 THEN {<<>>}
    ELSE LET shorter == TextsOf(n - 1)
         IN  shorter \cup
               {t \o Fragments[i] : t \in shorter, i \in 1..Len(Fragments)}

Texts == {t \in TextsOf(MaxFrags) : Len(t) <= MaxLen}

\* What a caller can pass for a text: a str, None, or a value of another
\* type.
TextArgs == {PyStr(t) : t \in Texts} \cup {PyNone, PyInt(0), PyInt(7)}

\* What a caller can pass to check_patient_context: the same, and every
\* keyword of the list as it is written there, in lower case and in upper
\* case.
KeywordTexts ==
    UNION {{SENSITIVE_KEYWORDS[i], StrLower(SENSITIVE_KEYWORDS[i]),
            StrUpper(SENSITIVE_KEYWORDS[i])} :
               i \in 1..Len(SENSITIVE_KEYWORDS)}

ContextArgs == TextArgs \cup {PyStr(t) : t \in KeywordTexts}

\* What a caller can pass for strict_mode: the two booleans, and values
\* that are neither.
ModeArgs ==
    {PyBool(TRUE), PyBool(FALSE), PyNone,
     PyStr(<<"p", "e", "r", "m", "i", "s", "s", "i", "v", "e">>)}

\* The readings of datetime.utcnow().isoformat().
UtcNow ==
    {<<"2", "0", "2", "6", "-", "0", "1", "-", "0", "1", "T",
       "0", "0", ":", "0", "0", ":", "0", "0">>}

\* A chat body holds at most MaxMessages messages.
MaxMessages == 2

\* The JSON text of a user message whose content has the JSON text c.
UserMessage(c) ==
    <<"{", "\"", "r", "o", "l", "e", "\"", ":", "\"", "u", "s", "e", "r",
      "\"", ",", "\"", "c", "o", "n", "t", "e", "n", "t", "\"", ":">>
        \o c \o <<"}">>

\* The JSON texts of the messages a chat body is made of: user messages
\* whose content is a text without PII, the empty text, a text with one
\* category of PII, a text with two, a number and a list; a user message
\* without content; a message of another role that holds PII; and an
\* item that is no message.
Messages ==
    {UserMessage(c) : c \in
        {<<"\"", "h", "i", "\"">>,
         <<"\"", "\"">>,
         <<"\"", "a", "@", "b", ".", "c", "o", "\"">>,
         <<"\"", "M", "R", "N", "7", " ", "a", "@", "b", ".", "c", "o", "\"">>,
         <<"7">>,
         <<"[", "\"", "a", "@", "b", ".", "c", "o", "\"", "]">>}}
    \cup
    {<<"{", "\"", "r", "o", "l", "e", "\"", ":", "\"", "u", "s", "e", "r",
       "\"", "}">>,
     <<"{", "\"", "r", "o", "l", "e", "\"", ":", "\"", "a", "s", "s", "i",
       "s", "t", "a", "n", "t", "\"", ",", "\"", "c", "o", "n", "t", "e",
       "n", "t", "\"", ":", "\"", "o", "l", "á", " ", "M", "R", "N", "7",
       "\"", "}">>,
     <<"1">>}

RECURSIVE MessageLists(_)
\* The lists of at most n messages.
MessageLists(n) ==
    IF n = 0 THEN {<<>>}
    ELSE MessageLists(n - 1) \cup
             {Append(l, m) : l \in MessageLists(n - 1), m \in Messages}

\* The bodies of chat requests: a payload with a list of messages.
ChatBodies ==
    {<<"{", "\"", "m", "o", "d", "e", "l", "\"", ":", "\"", "m", "\"", ",",
       "\"", "m", "e", "s", "s", "a", "g", "e", "s", "\"", ":", "[">>
         \o Join(<<",">>, l) \o <<"]", "}">> : l \in MessageLists(MaxMessages)}

\* A body with one user message that holds PII.
PiiBody ==
    <<"{", "\"", "m", "e", "s", "s", "a", "g", "e", "s", "\"", ":", "[",
      "{", "\"", "r", "o", "l", "e", "\"", ":", "\"", "u", "s", "e", "r",
      "\"", ",", "\"", "c", "o", "n", "t", "e", "n", "t", "\"", ":", "\"",
      "a", "@", "b", ".", "c", "o", "\"", "}", "]", "}">>

\* Other bodies: none, one that is not JSON, and payloads of another
\* shape.
OtherBodies ==
    {<<>>,
     <<"n", "o", "t", " ", "j", "s", "o", "n">>,
     <<"[", "1", ",", "2", "]">>,
     <<"{", "\"", "m", "e", "s", "s", "a", "g", "e", "s", "\"", ":", "n",
       "u", "l", "l", "}">>,
     <<"{", "\"", "m", "e", "s", "s", "a", "g", "e", "s", "\"", ":", "\"",
       "a", "b", "\"", "}">>,
     <<"{", "\"", "m", "o", "d", "e", "l", "\"", ":", "\"", "m", "\"", "}">>,
     <<"{", "\"", "m", "e", "s", "s", "a", "g", "e", "s", "\"", ":", "{",
       "\"", "a", "\"", ":", "1", "}", "}">>}

\* The requests: POSTs to a chat-completion path with each body, one
\* whose body cannot be read, and requests with another method or path.
Requests ==
    {[method |-> "POST", path |-> ChatPathApi, stream |-> b,
      body_fails |-> FALSE] : b \in ChatBodies \cup OtherBodies}
    \cup
    {[method |-> "POST", path |-> ChatPathApi, stream |-> PiiBody,
      body_fails |-> TRUE]}
    \cup
    {[method |-> m, path |-> p, stream |-> b, body_fails |-> FALSE] :
        m \in {"POST", "GET"},
        p \in {<<"/", "x">> \o ChatPathV1, ChatPathApi,
               <<"/", "a", "p", "i", "/", "m", "o", "d", "e", "l", "s">>},
        b \in {PiiBody, <<"n", "o", "t", " ", "j", "s", "o", "n">>}}

\* The list of connections holds at most MaxConnections entries at first.
MaxConnections == 2

\* conn is a dict whose info is a dict with the id of the PubMed server.
IsPubmedConnection(conn) ==
    /\ conn.ty = "dict"
    /\ DictHas(conn.d, KeyInfo)
    /\ conn.d.at[KeyInfo].ty = "dict"
    /\ DictHas(conn.d.at[KeyInfo].d, KeyId)
    /\ IsStr(conn.d.at[KeyInfo].d.at[KeyId], PUBMED_MCP_ID)

\* The connections a list can hold at first: the PubMed server as the
\* code registers it, the same server registered by hand, another server,
\* a connection without info, and one whose info is None.
Connections ==
    {get_pubmed_mcp_config,
     PyDict(DictOf(<<
         <<KeyUrl, PyStr(<<"h", "t", "t", "p", ":", "/", "/", "o", "l", "d", ":",
                    "1", "/", "s", "s", "e">>)>>,
         <<KeyInfo, PyDict(DictOf(<< <<KeyId, PyStr(PUBMED_MCP_ID)>> >>))>>
     >>)),
     PyDict(DictOf(<<
         <<KeyUrl, PyStr(<<"h", "t", "t", "p", ":", "/", "/", "x">>)>>,
         <<KeyInfo, PyDict(DictOf(<<
             <<KeyId, PyStr(<<"o", "t", "h", "e", "r">>)>> >>))>>
     >>)),
     PyDict(DictOf(<< <<KeyUrl, PyStr(<<"h", "t", "t", "p", ":", "/", "/", "y">>)>> >>)),
     PyDict(DictOf(<< <<KeyInfo, PyNone>> >>))}

RECURSIVE ConnectionLists(_)
\* The lists of at most n connections.
ConnectionLists(n) ==
    IF n = 0 THEN {<<>>}
    ELSE ConnectionLists(n - 1) \cup
             {Append(l, c) : l \in ConnectionLists(n - 1), c \in Connections}

\* How many connections of a list are the PubMed server.
PubmedCount(items) ==
    Cardinality({i \in 1..Len(items) : IsPubmedConnection(items[i])})

\* What config["TOOL_SERVER_CONNECTIONS"] can hold at first: nothing, or
\* a list with the PubMed server at most once.
InitialConnections ==
    {Absent} \cup
    {PyList(l) : l \in {x \in ConnectionLists(MaxConnections) :
                           PubmedCount(x) <= 1}}

\* A message of the user with the given content.
UserSays(content) ==
    PyDict(DictOf(<< <<KeyRole, PyStr(RoleUser)>>,
                     <<KeyContent, content>> >>))

\* The messages of the form data: none, a medical query, a query that is
\* not medical, a medical query in parts, a medical query followed by an
\* answer, a content that is a number, and an item that is no message.
MessagesOfForms ==
    {PyList(<<>>),
     PyList(<<UserSays(PyStr(<<"I", " ", "h", "a", "v", "e", " ", "a", " ", "F", "e",
                   "v", "e", "r">>))>>),
     PyList(<<UserSays(PyStr(<<"h", "e", "l", "l", "o">>))>>),
     PyList(<<UserSays(PyList(<<
         PyDict(DictOf(<< <<KeyText, PyStr(<<"c", "h", "e", "s", "t">>)>> >>)),
         PyDict(DictOf(<< <<KeyUrl, PyStr(<<"i", "m", "g">>)>> >>)),
         PyDict(DictOf(<< <<KeyText, PyStr(<<"p", "a", "i", "n">>)>> >>))>>))>>),
     PyList(<<UserSays(PyStr(<<"c", "o", "v", "i", "d">>)),
              PyDict(DictOf(<<
                  <<KeyRole, PyStr(<<"a", "s", "s", "i", "s", "t", "a", "n",
                                    "t">>)>>,
                  <<KeyContent, PyStr(<<"o", "k">>)>> >>))>>),
     PyList(<<UserSays(PyInt(7))>>),
     PyList(<<PyInt(1)>>)}

\* The form data of the calls: the messages, with no tool_ids, with none
\* chosen, with the tool of the server chosen, with another tool chosen,
\* and with tool_ids that is no list.
FormDatas ==
    {PyDict(DictOf(<< <<KeyMessages, m>> >>)) : m \in MessagesOfForms}
    \cup
    {PyDict(DictOf(<< <<KeyMessages, m>>, <<KeyToolIds, t>> >>)) :
        m \in MessagesOfForms,
        t \in {PyList(<<>>),
               PyList(<<PyStr(PUBMED_MCP_TOOL_ID)>>),
               PyList(<<PyStr(<<"w", "e", "b">>)>>),
               PyNone}}

\* The threads that call the one filter at the same time.
MaxThreads == 2

Threads == 1..MaxThreads

\* The methods the threads call.
ConcurrentOps == {"detect_pii", "sanitize_query", "validate_query"}

\* The texts the threads pass: one with an e-mail address and an IP
\* address, one with nothing to find, and None.
ConcurrentTexts ==
    {PyStr(<<"a", "@", "b", ".", "c", "o", " ", "1", ".", "1", ".", "1", ".", "1">>),
     PyStr(<<"o", "l", "a">>),
     PyNone}

(***************************************************************************)
(* The state: the fields of the one PIIFilter, and the call in progress.   *)
(***************************************************************************)
VARIABLES
    phase,              \* "new", "idle", "returned" (a call ended), "failed"
    strict_mode,        \* PIIFilter.strict_mode
    compiled_patterns,  \* PIIFilter.compiled_patterns
    call,               \* the method called last and its arguments
    outcome             \* how that call ended

vars == <<phase, strict_mode, compiled_patterns, call, outcome>>

Unset == [ty |-> "unset"]

NoCall == [op |-> "none", args |-> <<>>]

\* The state of the one PIIProtectionMiddleware and of the request it is
\* dispatching.
VARIABLES
    mw_pc,        \* "idle", "awaiting" (inside call_next), "done"
    request,      \* the request: method, path, the body sent and _body
    mw_local,     \* dispatch's locals: pii_detected, pii_types, and the
                  \* line of the call_next that is awaited
    forwarded,    \* the body the request had at each call of call_next
    mw_outcome    \* how dispatch ended

mwVars == <<mw_pc, request, mw_local, forwarded, mw_outcome>>

\* app_state.config["TOOL_SERVER_CONNECTIONS"], and the last call on it.
VARIABLES
    connections,  \* the list of connections, Absent without the key
    reg_call      \* the function called last, what the key held before
                  \* the call, and what the call returned

regVars == <<connections, reg_call>>

\* The calls the threads are in, and the PIIDetectionResult objects.
VARIABLES
    heap,         \* the PIIDetectionResult objects by reference, Unset
                  \* where no object is alive
    threads       \* for each thread the call it is in: the line reached,
                  \* the method, its argument and its locals

conVars == <<heap, threads>>

\* What the calls of the filter's methods leave alone.
notFilter == <<mwVars, regVars, conVars>>

NoRequest == [method |-> "none"]

\* No request is being dispatched.
MiddlewareIdle ==
    /\ mw_pc = "idle"
    /\ request = NoRequest
    /\ mw_local = Unset
    /\ forwarded = <<>>
    /\ mw_outcome = Unset

\* The application has no connection and nothing has been called on them.
RegistryIdle ==
    /\ connections = Absent
    /\ reg_call = NoCall

\* A thread that is in no call; result is a reference, 0 for none.
IdleThread ==
    [pc |-> "idle", op |-> "none", text |-> Unset, i |-> 0, result |-> 0,
     sanitized |-> Unset, outcome |-> Unset, mode |-> Unset,
     overlapped |-> FALSE]

\* No thread is in a call and no result object is alive.
ThreadsIdle ==
    /\ heap = [ref \in Threads |-> Unset]
    /\ threads = [t \in Threads |-> IdleThread]

\* The filter object the methods receive.
Self == [strict_mode |-> strict_mode, compiled_patterns |-> compiled_patterns]

Init ==
    /\ phase = "new"
    /\ strict_mode = Unset
    /\ compiled_patterns = EmptyDict
    /\ call = NoCall
    /\ outcome = Unset
    /\ MiddlewareIdle
    /\ RegistryIdle
    /\ ThreadsIdle

\* PIIFilter(strict_mode): the constructor call returns the new filter, or
\* raises and leaves none.
Construct ==
    /\ phase = "new"
    /\ \E mode \in ModeArgs :
          \E made \in {PIIFilterInit(mode)} :
              /\ call' = [op |-> "__init__", args |-> <<mode>>]
              /\ outcome' = IF made.raised THEN made ELSE Return(PyNone)
              /\ IF made.raised
                 THEN UNCHANGED <<strict_mode, compiled_patterns>>
                 ELSE /\ strict_mode' = made.value.strict_mode
                      /\ compiled_patterns' = made.value.compiled_patterns
    /\ phase' = "returned"
    /\ UNCHANGED notFilter

\* pii_filter.detect_pii(text)
DetectPII ==
    /\ phase = "idle"
    /\ \E text \in TextArgs :
          /\ call' = [op |-> "detect_pii", args |-> <<text>>]
          /\ outcome' = detect_pii(Self, text)
    /\ phase' = "returned"
    /\ UNCHANGED <<strict_mode, compiled_patterns>>
    /\ UNCHANGED notFilter

\* SanitizeQuery that consumes the catalog entry of the last category.
SanitizeQueryDropsEntry ==
    /\ phase = "idle"
    /\ \E text \in TextArgs :
          /\ call' = [op |-> "sanitize_query", args |-> <<text>>]
          /\ outcome' = sanitize_query(Self, text)
    /\ phase' = "returned"
    /\ compiled_patterns' =
           [compiled_patterns EXCEPT
               !.keys = SubSeq(@, 1, Len(@) - 1)]
    /\ UNCHANGED strict_mode
    /\ UNCHANGED notFilter

\* pii_filter.sanitize_query(text)
SanitizeQuery ==
    /\ phase = "idle"
    /\ \E text \in TextArgs :
          /\ call' = [op |-> "sanitize_query", args |-> <<text>>]
          /\ outcome' = sanitize_query(Self, text)
    /\ phase' = "returned"
    /\ UNCHANGED <<strict_mode, compiled_patterns>>
    /\ UNCHANGED notFilter

\* pii_filter.validate_query(query)
ValidateQuery ==
    /\ phase = "idle"
    /\ \E query \in TextArgs :
          /\ call' = [op |-> "validate_query", args |-> <<query>>]
          /\ outcome' = validate_query(Self, query)
    /\ phase' = "returned"
    /\ UNCHANGED <<strict_mode, compiled_patterns>>
    /\ UNCHANGED notFilter

\* pii_filter.check_patient_context(text)
CheckPatientContext ==
    /\ phase = "idle"
    /\ \E text \in ContextArgs :
          /\ call' = [op |-> "check_patient_context", args |-> <<text>>]
          /\ outcome' = check_patient_context(Self, text)
    /\ phase' = "returned"
    /\ UNCHANGED <<strict_mode, compiled_patterns>>
    /\ UNCHANGED notFilter

\* pii_filter.create_filter_report(query, pii_filter.detect_pii(query)):
\* the report of a query and of its own detection result.
CreateFilterReport ==
    /\ phase = "idle"
    /\ \E query \in TextArgs, now \in UtcNow :
          \E detected \in {detect_pii(Self, query)} :
              /\ ~detected.raised
              /\ call' = [op |-> "create_filter_report",
                          args |-> <<query, detected.value>>]
              /\ outcome' = create_filter_report(Self, query, detected.value, now)
    /\ phase' = "returned"
    /\ UNCHANGED <<strict_mode, compiled_patterns>>
    /\ UNCHANGED notFilter

\* The caller is done with what the call returned; nothing of the call
\* stays in the filter.  After a constructor that raised there is no filter
\* to call.
CallerDone ==
    /\ phase = "returned"
    /\ phase' = IF outcome.raised /\ call.op = "__init__" THEN "failed"
                ELSE "idle"
    /\ call' = NoCall
    /\ outcome' = Unset
    /\ UNCHANGED <<strict_mode, compiled_patterns>>
    /\ UNCHANGED notFilter

Next ==
    \/ Construct
    \/ DetectPII
    \/ SanitizeQuery
    \/ ValidateQuery
    \/ CheckPatientContext
    \/ CreateFilterReport
    \/ CallerDone

Spec == Init /\ [][Next]_vars

(***************************************************************************)
(* The middleware dispatching one request at a time.                       *)
(***************************************************************************)
\* What dispatch leaves alone.
notMiddleware == <<vars, regVars, conVars>>

\* dispatch(request, call_next) up to its first call of call_next: the
\* request goes to the next handler with the body it then has.
Dispatch ==
    /\ mw_pc = "idle"
    /\ \E req \in Requests :
          \E r \in {Intercept(MiddlewareFilter, req)} :
              /\ request' = [method |-> req.method, path |-> req.path,
                             stream |-> req.stream,
                             body_fails |-> req.body_fails,
                             body |-> r.body]
              /\ mw_local' = [site |-> r.site,
                              pii_detected |-> r.pii_detected,
                              pii_types |-> r.pii_types]
              /\ forwarded' = <<r.body>>
    /\ mw_pc' = "awaiting"
    /\ mw_outcome' = Unset
    /\ UNCHANGED notMiddleware

\* call_next returns a response: at line 44 dispatch returns it as it is,
\* at line 101 it goes through the signaling of lines 104-111.
CallNextReturns ==
    /\ mw_pc = "awaiting"
    /\ mw_outcome' =
           Return([headers |->
               IF mw_local.site = "line44" THEN EmptyDict
               ELSE SetHeaders(EmptyDict, mw_local.pii_detected,
                               mw_local.pii_types)])
    /\ mw_pc' = "done"
    /\ UNCHANGED <<request, mw_local, forwarded>>
    /\ UNCHANGED notMiddleware

\* call_next raises an Exception: line 44 is inside the try of line 35, so
\* the handler of line 96 takes the exception and line 101 calls call_next
\* again; raised at line 101 the exception leaves dispatch.
CallNextRaises ==
    /\ mw_pc = "awaiting"
    /\ IF mw_local.site = "line44"
       THEN /\ forwarded' = Append(forwarded, request.body)
            /\ mw_local' = [mw_local EXCEPT !.site = "line101"]
            /\ UNCHANGED <<mw_pc, mw_outcome>>
       ELSE /\ mw_outcome' = Raise("Exception")
            /\ mw_pc' = "done"
            /\ UNCHANGED <<mw_local, forwarded>>
    /\ UNCHANGED request
    /\ UNCHANGED notMiddleware

\* The request is over; the middleware keeps nothing of it.
DispatchDone ==
    /\ mw_pc = "done"
    /\ mw_pc' = "idle"
    /\ request' = NoRequest
    /\ mw_local' = Unset
    /\ forwarded' = <<>>
    /\ mw_outcome' = Unset
    /\ UNCHANGED notMiddleware

MiddlewareNext ==
    \/ Dispatch
    \/ CallNextReturns
    \/ CallNextRaises
    \/ DispatchDone

MiddlewareSpec ==
    Init /\ [][MiddlewareNext]_<<vars, mwVars, regVars, conVars>>

(***************************************************************************)
(* The calls on the connections of the application.                        *)
(***************************************************************************)
\* What the calls on the connections leave alone.
notRegistry == <<vars, mwVars, conVars>>

RegistryInit ==
    /\ phase = "new"
    /\ strict_mode = Unset
    /\ compiled_patterns = EmptyDict
    /\ call = NoCall
    /\ outcome = Unset
    /\ MiddlewareIdle
    /\ connections \in InitialConnections
    /\ reg_call = NoCall
    /\ ThreadsIdle

\* ensure_pubmed_mcp_registered(app_state), app_state having a config or
\* not.
EnsureRegistered ==
    /\ \E has_config \in BOOLEAN :
          \E r \in {ensure_pubmed_mcp_registered(has_config, connections)} :
              /\ connections' = r.connections
              /\ reg_call' = [op |-> "ensure_pubmed_mcp_registered",
                              args |-> <<has_config>>,
                              before |-> connections, value |-> r.value]
    /\ UNCHANGED notRegistry

\* await setup_pubmed_mcp(app_state); the coroutine has no await inside.
SetupPubmed ==
    /\ \E r \in {setup_pubmed_mcp(connections)} :
          /\ connections' = r.connections
          /\ reg_call' = [op |-> "setup_pubmed_mcp", args |-> <<>>,
                          before |-> connections, value |-> r.value]
    /\ UNCHANGED notRegistry

\* auto_select_medical_tools(form_data, app_state)
AutoSelect ==
    /\ \E form_data \in FormDatas :
          \E r \in {auto_select_medical_tools(form_data, connections)} :
              /\ connections' = r.connections
              /\ reg_call' = [op |-> "auto_select_medical_tools",
                              args |-> <<form_data>>,
                              before |-> connections, value |-> r.value]
    /\ UNCHANGED notRegistry

RegistryNext ==
    \/ EnsureRegistered
    \/ SetupPubmed
    \/ AutoSelect

RegistrySpec ==
    RegistryInit /\ [][RegistryNext]_<<vars, mwVars, regVars, conVars>>

(***************************************************************************)
(* Threads calling detect_pii, sanitize_query and validate_query on the    *)
(* one filter at the same time.  A thread runs its call a statement at a   *)
(* time, one turn of the loop over compiled_patterns.items() being one     *)
(* step; the fields of the filter are read when the statement that reads   *)
(* them runs.  The PIIDetectionResult objects live on the heap and a call  *)
(* holds a reference to its own.                                           *)
(***************************************************************************)
\* What the threads' calls leave alone: no statement of the three methods
\* assigns a field of the filter.
notConcurrent == <<vars, mwVars, regVars>>

\* A filter built with either mode, and no call yet.
ConcurrentInit ==
    /\ phase = "idle"
    /\ \E mode \in {PyBool(TRUE), PyBool(FALSE)} :
          /\ strict_mode = PIIFilterInit(mode).value.strict_mode
          /\ compiled_patterns = PIIFilterInit(mode).value.compiled_patterns
    /\ call = NoCall
    /\ outcome = Unset
    /\ MiddlewareIdle
    /\ RegistryIdle
    /\ ThreadsIdle

\* The thread is inside a call.
InProgress(thread) == thread.pc \in {"loop", "scanned"}

\* AllocateAny gives one object to every call, alive or not.
AllocateAny(objects) == CHOOSE ref \in DOMAIN objects : TRUE

\* PIIDetectionResult() (line 111): the reference of a new object, which
\* is none of those alive.
Allocate(objects) == CHOOSE ref \in DOMAIN objects : objects[ref] = Unset

\* The threads once thread t has entered the call entered: the calls in
\* progress at that moment and the new one overlap.
Entered(t, entered) ==
    [u \in Threads |->
        IF u = t
        THEN [entered EXCEPT !.overlapped =
                 \E v \in Threads \ {t} : InProgress(threads[v])]
        ELSE IF InProgress(threads[u])
        THEN [threads[u] EXCEPT !.overlapped = TRUE]
        ELSE threads[u]]

\* Thread t calls a method.  detect_pii, called directly or by
\* validate_query (line 178), allocates its result (line 111) and goes to
\* its return for a false text (lines 113-114); sanitize_query starts from
\* the text (line 146).
Enter(t) ==
    /\ threads[t].pc = "idle"
    /\ \E op \in ConcurrentOps, text \in ConcurrentTexts :
          IF op = "sanitize_query"
          THEN /\ threads' = Entered(t,
                     [IdleThread EXCEPT !.pc = "loop", !.op = op,
                                        !.text = text, !.i = 1,
                                        !.sanitized = text,
                                        !.mode = strict_mode])
               /\ UNCHANGED heap
          ELSE \E ref \in {Allocate(heap)} :
                  /\ heap' = [heap EXCEPT ![ref] = NewPIIDetectionResult]
                  /\ threads' = Entered(t,
                        [IdleThread EXCEPT
                            !.pc = IF Truthy(text) THEN "loop" ELSE "scanned",
                            !.op = op, !.text = text, !.i = 1,
                            !.result = ref, !.mode = strict_mode])
    /\ UNCHANGED notConcurrent

\* One turn of the loop over compiled_patterns.items() in thread t: of
\* detect_pii (lines 117-121), which records what findall gave in the
\* call's result, or of sanitize_query (lines 148-164), which carries the
\* substituted text on.  An exception ends the call.
Iterate(t) ==
    LET me == threads[t]
        category == compiled_patterns.keys[me.i]
        pattern == compiled_patterns.at[category]
    IN  /\ me.pc = "loop"
        /\ me.i <= Len(compiled_patterns.keys)
        /\ IF me.op = "sanitize_query"
           THEN \E next \in {CallSub(pattern, Placeholder(category),
                                     me.sanitized)} :
                   /\ threads' = [threads EXCEPT ![t] =
                         IF next.raised
                         THEN [me EXCEPT !.pc = "done", !.outcome = next]
                         ELSE [me EXCEPT !.sanitized = next.value,
                                         !.i = @ + 1]]
                   /\ UNCHANGED heap
           ELSE \E matches \in {CallFindAll(pattern, me.text)} :
                   /\ threads' = [threads EXCEPT ![t] =
                         IF matches.raised
                         THEN [me EXCEPT !.pc = "done", !.outcome = matches]
                         ELSE [me EXCEPT !.i = @ + 1]]
                   /\ heap' =
                         IF ~matches.raised /\ Len(matches.value) > 0
                         THEN [heap EXCEPT ![me.result] =
                                  add_pii(@, category, matches.value)]
                         ELSE heap
        /\ UNCHANGED notConcurrent

\* The loop of thread t is over: sanitize_query returns its text (line
\* 166), detect_pii sets the risk level and message of its result (lines
\* 123-132).
LoopEnds(t) ==
    LET me == threads[t]
    IN  /\ me.pc = "loop"
        /\ me.i > Len(compiled_patterns.keys)
        /\ IF me.op = "sanitize_query"
           THEN /\ threads' = [threads EXCEPT ![t] =
                      [me EXCEPT !.pc = "done",
                                 !.outcome = Return(me.sanitized)]]
                /\ UNCHANGED heap
           ELSE /\ threads' = [threads EXCEPT ![t].pc = "scanned"]
                /\ heap' = [heap EXCEPT ![me.result] = RiskOf(@)]
        /\ UNCHANGED notConcurrent

\* detect_pii of thread t returns the reference of its result (lines 114
\* and 134); validate_query, which called it, reads the result and the
\* mode of the filter and returns its triple (lines 180-188), whose third
\* item is the same reference.
Returns(t) ==
    LET me == threads[t]
    IN  /\ me.pc = "scanned"
        /\ threads' = [threads EXCEPT ![t] =
              [me EXCEPT
                  !.pc = "done",
                  !.outcome =
                      IF me.op = "detect_pii" THEN Return(me.result)
                      ELSE \* validate_query
                           LET triple == ValidateResult(Self,
                                                        heap[me.result])
                           IN  Return(<<triple[1], triple[2],
                                        me.result>>)]]
        /\ UNCHANGED heap
        /\ UNCHANGED notConcurrent

\* The caller in thread t drops what the call gave it; an object to which
\* no reference is left is freed.
Release(t) ==
    LET me == threads[t]
    IN  /\ me.pc = "done"
        /\ threads' = [threads EXCEPT ![t] = IdleThread]
        /\ heap' = [ref \in DOMAIN heap |->
                       IF /\ ref = me.result
                          /\ \A u \in Threads \ {t} :
                                threads[u].result # ref
                       THEN Unset ELSE heap[ref]]
        /\ UNCHANGED notConcurrent

ConcurrentNext ==
    \E t \in Threads :
        \/ Enter(t)
        \/ Iterate(t)
        \/ LoopEnds(t)
        \/ Returns(t)
        \/ Release(t)

ConcurrentSpec ==
    ConcurrentInit /\ [][ConcurrentNext]_<<vars, mwVars, regVars, conVars>>

(***************************************************************************)
(* Vocabulary of the properties.                                           *)
(***************************************************************************)
\* A call of method op has ended and its outcome is in the caller's hands.
Returned(op) == phase = "returned" /\ call.op = op

\* The same, the argument being a str.
ReturnedOnText(op) == Returned(op) /\ call.args[1].ty = "str"

\* A filter exists: the constructor has returned one.
Constructed ==
    \/ phase = "idle"
    \/ phase = "returned" /\ ~(call.op = "__init__" /\ outcome.raised)

\* The categories whose rule matches somewhere in s.
MatchedCategories(s) ==
    {c \in DOMAIN compiled_patterns.at :
        SearchFrom(compiled_patterns.at[c], s, 1).ok}

RECURSIVE MatchSpans(_, _, _)
\* The full spans of the non-overlapping matches of p in s from position
\* pos on, from left to right.
MatchSpans(p, s, pos) ==
    LET m == SearchFrom(p, s, pos)
    IN  IF ~m.ok THEN <<>>
        ELSE <<SubSeq(s, m.start, m.end - 1)>>
                 \o MatchSpans(p, s, ResumeAfter(m))

\* The risk levels, and the message of an accepted safe query.
Low == <<"l", "o", "w">>

Medium == <<"m", "e", "d", "i", "u", "m">>

High == <<"h", "i", "g", "h">>

SafeMessage ==
    <<"Q", "u", "e", "r", "y", " ", "i", "s", " ", "s", "a", "f", "e",
      " ", "-", " ", "n", "o", " ", "P", "I", "I", " ", "d", "e", "t",
      "e", "c", "t", "e", "d">>

(***************************************************************************)
(* C1.  The result of detect_pii on a text is decided by the number of     *)
(* distinct categories whose rule matches the text: none gives a safe      *)
(* result with an empty mapping and risk level low, exactly one gives an   *)
(* unsafe result of risk level medium, two or more give an unsafe result   *)
(* of risk level high; the mapping holds exactly the matched categories,   *)
(* and how often a category matches plays no part.                         *)
(***************************************************************************)
C1_RiskByDistinctCategories ==
    ReturnedOnText("detect_pii") =>
        /\ ~outcome.raised
        /\ LET matched == MatchedCategories(call.args[1].s)
               n == Cardinality(matched)
               result == outcome.value
           IN  /\ {result.found_pii.keys[i] :
                      i \in 1..Len(result.found_pii.keys)} = matched
               /\ Len(result.found_pii.keys) = n
               /\ result.is_safe = (n = 0)
               /\ n = 0 => result.risk_level = Low
               /\ n = 1 => result.risk_level = Medium
               /\ n >= 2 => result.risk_level = High

\* One category matched twice: the risk level stays medium.
C1_Witness ==
    /\ ReturnedOnText("detect_pii")
    /\ ~outcome.raised
    /\ Len(outcome.value.found_pii.keys) = 1
    /\ Len(outcome.value.found_pii.at[outcome.value.found_pii.keys[1]]) = 2
    /\ outcome.value.risk_level = Medium

(***************************************************************************)
(* C2.  validate_query on a text never raises and returns a triple whose   *)
(* third element is the detection result of that text.  A strict filter    *)
(* returns accepted = false whenever that result is unsafe, a permissive   *)
(* filter returns accepted = true whatever it is, and in both modes a safe *)
(* text is accepted with the message "Query is safe - no PII detected".    *)
(***************************************************************************)
C2_ValidateByMode ==
    (ReturnedOnText("validate_query") /\ strict_mode.ty = "bool") =>
        /\ ~outcome.raised
        /\ LET detected == detect_pii(Self, call.args[1]).value
               accepted == outcome.value[1]
               message == outcome.value[2]
           IN  /\ outcome.value[3] = detected
               /\ (strict_mode.b /\ ~detected.is_safe) => ~accepted
               /\ ~strict_mode.b => accepted
               /\ detected.is_safe => (accepted /\ message = SafeMessage)

\* A strict filter has rejected a text, by a returned value.
C2_Witness ==
    /\ ReturnedOnText("validate_query")
    /\ strict_mode = PyBool(TRUE)
    /\ ~outcome.raised
    /\ outcome.value[1] = FALSE
    /\ ~outcome.value[3].is_safe

(***************************************************************************)
(* C3.  sanitize_query is idempotent on its own output: sanitizing the     *)
(* text it returned gives that text again.                                 *)
(***************************************************************************)
C3_SanitizeIdempotent ==
    (ReturnedOnText("sanitize_query") /\ ~outcome.raised) =>
        sanitize_query(Self, outcome.value) = Return(outcome.value)

(***************************************************************************)
(* C4.  sanitize_query returns a text in which detect_pii finds no PII     *)
(* unchanged, character for character.                                     *)
(***************************************************************************)
C4_SafeTextUnchanged ==
    (/\ ReturnedOnText("sanitize_query")
     /\ detect_pii(Self, call.args[1]).value.is_safe) =>
        outcome = Return(call.args[1])

\* A safe text that is not empty came back unchanged.
C4_Witness ==
    /\ ReturnedOnText("sanitize_query")
    /\ Len(call.args[1].s) > 0
    /\ detect_pii(Self, call.args[1]).value.is_safe
    /\ outcome = Return(call.args[1])

(***************************************************************************)
(* C5.  For every category whose rule matches a text, the list detect_pii  *)
(* stores for it is the sequence of the full spans of the matches, in      *)
(* order of appearance.                                                    *)
(***************************************************************************)
C5_ListsHoldFullSpans ==
    (ReturnedOnText("detect_pii") /\ ~outcome.raised) =>
        \A c \in MatchedCategories(call.args[1].s) :
            /\ DictHas(outcome.value.found_pii, c)
            /\ outcome.value.found_pii.at[c] =
                   MatchSpans(compiled_patterns.at[c], call.args[1].s, 1)

(***************************************************************************)
(* C6.  On the empty string and on None, detect_pii checks no category     *)
(* and returns the untouched fresh result (safe, empty mapping, risk       *)
(* level low) without raising; sanitize_query of the empty string returns  *)
(* the empty string; validate_query of the empty string returns            *)
(* accepted = true on a strict and on a permissive filter.                 *)
(***************************************************************************)
C6_EmptyAndAbsentInput ==
    /\ (/\ Returned("detect_pii")
        /\ call.args[1] \in {PyStr(<<>>), PyNone}) =>
           /\ ~outcome.raised
           /\ outcome.value.is_safe
           /\ outcome.value.found_pii = EmptyDict
           /\ outcome.value.risk_level = Low
           /\ outcome.value.message = <<>>
    /\ (Returned("sanitize_query") /\ call.args[1] = PyStr(<<>>)) =>
           outcome = Return(PyStr(<<>>))
    /\ (Returned("validate_query") /\ call.args[1] = PyStr(<<>>)) =>
           /\ ~outcome.raised
           /\ outcome.value[1] = TRUE

\* detect_pii(None) has returned a safe result.
C6_Witness ==
    /\ Returned("detect_pii")
    /\ call.args[1] = PyNone
    /\ ~outcome.raised
    /\ outcome.value.is_safe

(***************************************************************************)
(* C7.  Malformed input counts as "no PII": on every input that is None    *)
(* or not a str, detect_pii returns a safe result with an empty mapping    *)
(* and does not raise, and sanitize_query raises on no input.              *)
(***************************************************************************)
C7_MalformedInputIsSafe ==
    /\ (Returned("detect_pii") /\ call.args[1].ty # "str") =>
           /\ ~outcome.raised
           /\ outcome.value.is_safe
           /\ outcome.value.found_pii = EmptyDict
    /\ Returned("sanitize_query") => ~outcome.raised

(***************************************************************************)
(* C8.  A matcher that fails during detect_pii does not fail the call:     *)
(* the failing category is skipped and detect_pii returns a result whose   *)
(* mapping and risk level are those of the categories that did not fail.   *)
(***************************************************************************)
C8_MatcherFailureContained ==
    Returned("detect_pii") =>
        LET failed == {c \in DOMAIN compiled_patterns.at :
                          CallFindAll(compiled_patterns.at[c],
                                      call.args[1]).raised}
            found == {c \in DOMAIN compiled_patterns.at \ failed :
                         Len(CallFindAll(compiled_patterns.at[c],
                                         call.args[1]).value) > 0}
        IN  (failed # {} /\ Truthy(call.args[1])) =>
                /\ ~outcome.raised
                /\ {outcome.value.found_pii.keys[i] :
                       i \in 1..Len(outcome.value.found_pii.keys)} = found
                /\ outcome.value.risk_level =
                       (IF Cardinality(found) = 0 THEN Low
                        ELSE IF Cardinality(found) = 1 THEN Medium
                        ELSE High)

(***************************************************************************)
(* C9.  The constructor rejects a mode that is neither the strict nor the  *)
(* permissive setting: called with such a value it raises, and no filter   *)
(* ever holds one.                                                         *)
(***************************************************************************)
C9_InvalidModeRejected ==
    /\ (Returned("__init__") /\ call.args[1].ty # "bool") => outcome.raised
    /\ Constructed => strict_mode.ty = "bool"

(***************************************************************************)
(* C10.  Every member of PIICategory has exactly one entry in PATTERNS     *)
(* and in the compiled_patterns of the filter.                             *)
(***************************************************************************)
EntriesOf(d, c) == Cardinality({i \in 1..Len(d.keys) : d.keys[i] = c})

C10_EveryMemberHasOneEntry ==
    Constructed =>
        \A c \in PIICategory :
            /\ EntriesOf(PATTERNS, c) = 1
            /\ EntriesOf(compiled_patterns, c) = 1

(***************************************************************************)
(* C10, amended.  Every member of PIICategory other than PATIENT_NAME has  *)
(* exactly one entry in PATTERNS and in compiled_patterns, PATIENT_NAME    *)
(* has none, and the catalog is read-only once the filter is built: after  *)
(* any sequence of detect_pii, sanitize_query, validate_query,             *)
(* check_patient_context and create_filter_report calls every entry is     *)
(* still the pattern of PATTERNS compiled with re.IGNORECASE.              *)
(***************************************************************************)
C10_CatalogFixed ==
    Constructed =>
        /\ \A c \in PIICategory \ {"PATIENT_NAME"} :
              /\ EntriesOf(PATTERNS, c) = 1
              /\ EntriesOf(compiled_patterns, c) = 1
        /\ EntriesOf(PATTERNS, "PATIENT_NAME") = 0
        /\ EntriesOf(compiled_patterns, "PATIENT_NAME") = 0
        /\ compiled_patterns.keys = PATTERNS.keys
        /\ \A c \in DOMAIN compiled_patterns.at :
              /\ compiled_patterns.at[c].re = PATTERNS.at[c]
              /\ compiled_patterns.at[c].ignorecase

\* sanitize_query has rewritten a text, and the catalog is what it was.
C10_Witness ==
    /\ ReturnedOnText("sanitize_query")
    /\ ~outcome.raised
    /\ outcome.value # call.args[1]
    /\ compiled_patterns.keys = PATTERNS.keys

(***************************************************************************)
(* C11.  check_patient_context(text) is true if and only if the text       *)
(* contains, letter case ignored on both sides, at least one keyword of    *)
(* SENSITIVE_KEYWORDS; this for every keyword of the list, however it is   *)
(* written there.                                                          *)
(***************************************************************************)
C11_KeywordsCaseInsensitive ==
    ReturnedOnText("check_patient_context") =>
        LET text == StrLower(call.args[1].s)
        IN  /\ ~outcome.raised
            /\ outcome.value =
                   (\E i \in 1..Len(SENSITIVE_KEYWORDS) :
                       Contains(text, StrLower(SENSITIVE_KEYWORDS[i])))

(***************************************************************************)
(* C12.  The record create_filter_report builds from a text and its        *)
(* detection result is serializable data: detected_pii_types holds one     *)
(* plain string per category of the result and no member of the            *)
(* enumeration, detected_pii_count is the sum of the lengths of the match  *)
(* lists, and is_safe, risk_level and message are those of the result.     *)
(***************************************************************************)
C12_ReportIsPlainData ==
    ReturnedOnText("create_filter_report") =>
        LET result == call.args[2]
            report == outcome.value
        IN  /\ ~outcome.raised
            /\ Len(report.detected_pii_types) = Len(result.found_pii.keys)
            /\ \A i \in 1..Len(report.detected_pii_types) :
                   report.detected_pii_types[i] \notin PIICategory
            /\ report.detected_pii_count = SumLen(result.found_pii, 1)
            /\ report.is_safe = result.is_safe
            /\ report.risk_level = result.risk_level
            /\ report.message = result.message

(***************************************************************************)
(* Vocabulary of the properties of the concurrent calls.                   *)
(***************************************************************************)
\* What the method of thread t gives when it is called alone on the text.
Alone(t) ==
    CASE threads[t].op = "detect_pii" ->
             detect_pii(Self, threads[t].text)
      [] threads[t].op = "sanitize_query" ->
             sanitize_query(Self, threads[t].text)
      [] OTHER -> validate_query(Self, threads[t].text)

\* What the caller in thread t holds once its call has ended, the
\* references followed to the objects as they are now.
Held(t) ==
    LET ended == threads[t].outcome
    IN  IF ended.raised THEN ended
        ELSE CASE threads[t].op = "detect_pii" ->
                      Return(heap[ended.value])
               [] threads[t].op = "sanitize_query" -> ended
               [] OTHER -> Return(<<ended.value[1], ended.value[2],
                                    heap[ended.value[3]]>>)

\* The call of thread t has ended and the caller still holds what it gave.
Ended(t) == threads[t].pc = "done"

(***************************************************************************)
(* C13.  For any interleaving of concurrent detect_pii, sanitize_query     *)
(* and validate_query calls on one shared PIIFilter, every call returns    *)
(* exactly what it would return if run alone on its own input: each call   *)
(* allocates its own detection result, no two calls hold the same result   *)
(* object, and the filter's mode and catalog are after every call what     *)
(* they were when it began.                                                *)
(***************************************************************************)
C13_ConcurrentCallsIsolated ==
    /\ \A t \in Threads :
          Ended(t) => Held(t) = Alone(t)
    /\ \A t \in Threads, u \in Threads :
          (t # u /\ threads[t].result # 0) =>
              threads[t].result # threads[u].result
    /\ \A t \in Threads :
          threads[t].result # 0 => heap[threads[t].result] # Unset
    /\ \A t \in Threads :
          threads[t].pc # "idle" => threads[t].mode = strict_mode
    /\ compiled_patterns =
           PIIFilterInit(strict_mode).value.compiled_patterns

\* Two calls that ran at the same time have both ended: a detect_pii that
\* found two categories in its text, and a validate_query of the same text
\* on a filter in strict mode, which blocked it.
C13_Witness ==
    \E t \in Threads, u \in Threads :
        /\ Ended(t) /\ Ended(u)
        /\ threads[t].overlapped /\ threads[u].overlapped
        /\ threads[t].op = "detect_pii"
        /\ threads[u].op = "validate_query"
        /\ Len(Held(t).value.found_pii.keys) = 2
        /\ Held(u).value[1] = FALSE
        /\ Held(u).value[3] = Held(t).value

(***************************************************************************)
(* Vocabulary of the properties of the middleware.                         *)
(***************************************************************************)
\* The request is a POST to a chat-completion path.
Intercepted(req) ==
    /\ req.method = "POST"
    /\ \/ EndsWith(req.path, ChatPathV1)
       \/ EndsWith(req.path, ChatPathApi)

\* dispatch has called call_next, and may have ended.
Dispatching == mw_pc \in {"awaiting", "done"}

\* dispatch has returned a response.
DispatchReturned == mw_pc = "done" /\ ~mw_outcome.raised

\* The response dispatch returned carries one of the two PII headers.
HasPiiHeader ==
    \/ DictHas(mw_outcome.value.headers, HeaderDetected)
    \/ DictHas(mw_outcome.value.headers, HeaderTypes)

\* m is a message of the user role.
IsUserMessage(m) ==
    /\ m.ty = "dict"
    /\ DictHas(m.d, KeyRole)
    /\ IsStr(m.d.at[KeyRole], RoleUser)

\* The place of the latest user-role message of a list, 0 if there is none.
LastUserIndex(items) ==
    IF \E i \in 1..Len(items) : IsUserMessage(items[i])
    THEN CHOOSE i \in 1..Len(items) :
             /\ IsUserMessage(items[i])
             /\ \A j \in (i + 1)..Len(items) : ~IsUserMessage(items[j])
    ELSE 0

\* The content of a message, absent being the empty text.
ContentOf(m) == IF DictHas(m.d, KeyContent) THEN m.d.at[KeyContent]
                ELSE PyStr(<<>>)

\* The payload has the shape of a chat request down to its latest user
\* message: a dict whose "messages", if any, is a list whose items from
\* the latest user message on are dicts, the content of that message being
\* a text or nothing.
ChatShaped(data) ==
    /\ data.ty = "dict"
    /\ DictHas(data.d, KeyMessages) =>
         LET messages == data.d.at[KeyMessages]
         IN  /\ messages.ty = "list"
             /\ LET items == messages.items
                    last == LastUserIndex(items)
                IN  /\ \A j \in (last + 1)..Len(items) : items[j].ty = "dict"
                    /\ last # 0 =>
                         \/ ContentOf(items[last]).ty = "str"
                         \/ ~Truthy(ContentOf(items[last]))

\* Reading, parsing or processing the body of the request fails.
ProcessingFails(req) ==
    \/ req.body_fails
    \/ /\ Len(req.stream) > 0
       /\ \/ JsonLoads(req.stream).raised
          \/ ~ChatShaped(JsonLoads(req.stream).value)

(***************************************************************************)
(* C14.  When reading, parsing or processing the body of a chat-completion *)
(* POST fails, every call of the next handler gets the request with the    *)
(* body it came with, dispatch raises nothing of its own, and the response *)
(* it returns carries neither X-PII-Detected nor X-PII-Types.              *)
(***************************************************************************)
C14_FailureFallsBack ==
    (Dispatching /\ Intercepted(request) /\ ProcessingFails(request)) =>
        /\ Len(forwarded) >= 1
        /\ \A i \in 1..Len(forwarded) : forwarded[i] = request.stream
        /\ request.body = request.stream
        /\ mw_pc = "done" /\ mw_outcome.raised =>
               mw_outcome.exc = "Exception" /\ mw_local.site = "line101"
        /\ DispatchReturned => ~HasPiiHeader

\* A request whose user message holds a list has been answered: the
\* detector raised on it.
C14_Witness ==
    /\ DispatchReturned
    /\ Intercepted(request)
    /\ ~request.body_fails
    /\ ~JsonLoads(request.stream).raised
    /\ ~ChatShaped(JsonLoads(request.stream).value)
    /\ \E i \in 1..Len(request.stream) : request.stream[i] = "["
                                         /\ IsAt(request.stream, i + 1, "\"")

\* The place of the message dispatch is to inspect: the latest user-role
\* message of a chat-shaped payload when its content is a text that is
\* not empty; 0 when there is no such message.
Target(data) ==
    IF ChatShaped(data) /\ DictHas(data.d, KeyMessages)
    THEN LET items == data.d.at[KeyMessages].items
             last == LastUserIndex(items)
         IN  IF last # 0 /\ Truthy(ContentOf(items[last])) THEN last ELSE 0
    ELSE 0

\* The payload with the content of its message at place t replaced by
\* text.
WithContent(data, t, text) ==
    PyDict([data.d EXCEPT !.at[KeyMessages] =
        PyList([@.items EXCEPT ![t] =
            PyDict([@.d EXCEPT !.at[KeyContent] = text])])])

\* The two PII headers are those of a detection of the categories of
\* result.
SignalsDetection(headers, result) ==
    /\ DictHas(headers, HeaderDetected)
    /\ headers.at[HeaderDetected] = <<"t", "r", "u", "e">>
    /\ DictHas(headers, HeaderTypes)
    /\ headers.at[HeaderTypes] = Join(<<",">>, DetectedValues(result))

(***************************************************************************)
(* C15.  For a chat-completion POST whose body is valid JSON, the payload  *)
(* the next handler gets is the original one, but for the content of the   *)
(* latest user-role message, which is its sanitized text exactly when      *)
(* detect_pii finds PII in it; the response carries X-PII-Detected =       *)
(* "true" and X-PII-Types = the comma-joined names of the categories       *)
(* detected exactly when that replacement was made.  A request with        *)
(* another method or path goes on with its body and gets no PII header.    *)
(***************************************************************************)
C15_OnlyLatestUserMessage ==
    Dispatching =>
        IF ~Intercepted(request)
        THEN /\ \A i \in 1..Len(forwarded) : forwarded[i] = request.stream
             /\ DispatchReturned => ~HasPiiHeader
        ELSE (/\ ~request.body_fails
              /\ Len(request.stream) > 0
              /\ ~JsonLoads(request.stream).raised) =>
            LET data == JsonLoads(request.stream).value
                t == Target(data)
                text == IF t = 0 THEN PyStr(<<>>)
                        ELSE ContentOf(data.d.at[KeyMessages].items[t])
                found == detect_pii(MiddlewareFilter, text).value
            IN  IF t # 0 /\ ~found.is_safe
                THEN /\ \A i \in 1..Len(forwarded) :
                           JsonLoads(forwarded[i]) =
                               Return(WithContent(data, t,
                                   sanitize_query(MiddlewareFilter,
                                                  text).value))
                     /\ DispatchReturned =>
                           SignalsDetection(mw_outcome.value.headers, found)
                ELSE /\ \A i \in 1..Len(forwarded) :
                           JsonLoads(forwarded[i]) = Return(data)
                     /\ DispatchReturned => ~HasPiiHeader

\* A request with two user messages has been answered with the PII
\* headers: the second message held PII and was replaced.
C15_Witness ==
    /\ DispatchReturned
    /\ Intercepted(request)
    /\ HasPiiHeader
    /\ request.body # request.stream
    /\ LET items == JsonLoads(request.stream).value.d.at[KeyMessages].items
       IN  /\ Len(items) = 2
           /\ IsUserMessage(items[1])
           /\ LastUserIndex(items) = 2

(***************************************************************************)
(* C16.  On every path of dispatch the next handler is called exactly once *)
(* for the request: while and after dispatch runs, call_next has been      *)
(* called once, never twice.                                               *)
(***************************************************************************)
C16_CallNextOnce == Dispatching => Len(forwarded) = 1

(***************************************************************************)
(* Vocabulary of the properties of the connections.                        *)
(***************************************************************************)
\* The connections of a list that are not the PubMed server, in order.
NotPubmed(conn) == ~IsPubmedConnection(conn)

OtherConnections(items) == SelectSeq(items, NotPubmed)

\* The list the key held before the last call, empty if it held none.
ItemsBefore == IF reg_call.before.ty = "list" THEN reg_call.before.items
               ELSE <<>>

(***************************************************************************)
(* C17.  From a list of connections with the PubMed server at most once,   *)
(* after any calls of ensure_pubmed_mcp_registered, setup_pubmed_mcp and   *)
(* auto_select_medical_tools the list holds the server at most once; a     *)
(* call of ensure_pubmed_mcp_registered that returns True leaves it        *)
(* exactly once, with the other entries that were there in their order;    *)
(* setup_pubmed_mcp returns True only when the call added the entry.       *)
(***************************************************************************)
C17_PubmedRegisteredOnce ==
    /\ connections.ty = "list" => PubmedCount(connections.items) <= 1
    /\ connections.ty = "absent" =>
           reg_call = NoCall \/ reg_call.before.ty = "absent"
    /\ (reg_call.op = "ensure_pubmed_mcp_registered"
            /\ reg_call.value = TRUE) =>
           /\ connections.ty = "list"
           /\ PubmedCount(connections.items) = 1
           /\ OtherConnections(connections.items) =
                  OtherConnections(ItemsBefore)
           /\ SubSeq(connections.items, 1, Len(ItemsBefore)) = ItemsBefore
    /\ (reg_call.op = "setup_pubmed_mcp" /\ reg_call.value = TRUE) =>
           /\ PubmedCount(ItemsBefore) = 0
           /\ connections = PyList(Append(ItemsBefore, get_pubmed_mcp_config))

\* setup_pubmed_mcp has added the server to a list of two other
\* connections, and so has ensure_pubmed_mcp_registered.
C17_Witness ==
    /\ reg_call.op \in {"setup_pubmed_mcp", "ensure_pubmed_mcp_registered"}
    /\ reg_call.value = TRUE
    /\ Len(ItemsBefore) = 2
    /\ Len(connections.items) = 3
    /\ PubmedCount(connections.items) = 1

====
